---------------------------- MODULE Spec2Model ----------------------------
(***************************************************************************)
(* AutoDocMind: the run of execute over the scanned files, the numeric     *)
(* utilities (percentage, average), the per-module insight lists of the    *)
(* report generator (_hotspots, _best_documented_modules,                  *)
(* _worst_documented_modules) and the dependency summary (_dependencies).  *)
(*                                                                         *)
(* Numbers that the code holds as floats rounded to two decimals are held  *)
(* here in hundredths: the value 9.09 is the integer 909.                  *)
(***************************************************************************)
EXTENDS Integers, Sequences, FiniteSets, TLC

VARIABLES
    \* execute (src/src/execute.py)
    exec_pc,          \* position of execute: "start", "loop", "readme", "html", "done", "aborted"
    files,            \* list(scanner(...)): per file, TRUE when analysing it raises
    registered,       \* globals().get('analyze_<framework>') is not None
    file_idx,         \* number of files the for loop has taken
    modules,          \* the list `modules`: indexes of the files whose model was appended
    exec_log,         \* records written to the logger, in order
    outputs,          \* artefacts written so far
    exec_exc,         \* exception leaving execute, "none" when there is none
    \* tools/nums.py
    num_part, num_total, num_elements, num_op, num_result,
    \* generators/report.py: per-module lists
    sloc, module_stats, hotspots, best_documented, worst_documented,
    \* generators/report.py: _dependencies
    dep_keys,         \* keys of dep_map in insertion order
    dep_targets,      \* dep_map[key], for every key
    dep_limit,        \* the keyword argument `limit`
    dep_pc,           \* "idle", "returned" or "raised"
    dep_frame,        \* locals of _dependencies when it was left
    dep_result,       \* what _dependencies returned or raised
    \* generators/graphic.py: _paths
    pth_framework,    \* the argument `framework`
    pth_modules,      \* the argument `modules`: per module its path and its imports
    pth_result,       \* what _paths returned or raised
    \* utils/strings.py: DocStrings
    str_doc,          \* the argument `doc`
    str_tab,          \* the keyword argument `tabulation` of to_readme
    str_cleaned,      \* the keyword argument `cleaned`
    str_op,           \* the method called: "none" before the call
    str_result,       \* what the method returned or raised
    \* generators/report.py: _complexity_notes
    notes_limit,      \* the keyword argument `limit`
    complexity_notes, \* what _complexity_notes returned, and its local top_modules
    \* generators/report.py: _risks and _recommendations
    coverage,         \* class_percent, method_percent, attribute_percent, in hundredths
    risks_limit,      \* the keyword argument `limit` of _risks
    rec_limit,        \* the keyword argument `limit` of _recommendations
    risks,            \* what _risks returned, and its local top_modules
    risk_impact,      \* what _risk_impact returned
    recommendations,  \* what _recommendations returned
    \* analyzers/modules.py: analyze_modules
    am_modules,       \* the argument `modules`
    am_result,        \* the ReportInfo analyze_modules returned
    \* helpers/loggers.py: the logger logging.getLogger(ALGORITHM)
    log_handlers,     \* logger.handlers, in the order they were added
    log_level,        \* logger.level
    log_propagate,    \* logger.propagate
    log_calls         \* the calls of ManageLogger made so far, with their outcome

execVars == <<exec_pc, files, registered, file_idx, modules, exec_log, outputs, exec_exc>>
numVars  == <<num_part, num_total, num_elements, num_op, num_result>>
statVars == <<sloc, module_stats, hotspots, best_documented, worst_documented>>
depVars  == <<dep_keys, dep_targets, dep_limit, dep_pc, dep_frame, dep_result>>
pathVars == <<pth_framework, pth_modules, pth_result>>
strVars  == <<str_doc, str_tab, str_cleaned, str_op, str_result>>
noteVars == <<notes_limit, complexity_notes>>
riskVars == <<coverage, risks_limit, rec_limit, risks, risk_impact, recommendations>>
aggVars  == <<am_modules, am_result>>
logVars  == <<log_handlers, log_level, log_propagate, log_calls>>
moreVars == <<pathVars, strVars, noteVars, riskVars, aggVars, logVars>>
vars     == <<execVars, numVars, statVars, depVars, moreVars>>

-----------------------------------------------------------------------------
(* Bounds of the model *)

MaxFiles == 4
MaxNum == 8
MaxElements == 2

-----------------------------------------------------------------------------
(* Generic helpers *)

Range(s) == {s[i] : i \in 1..Len(s)}

Reverse(s) == [i \in 1..Len(s) |-> s[Len(s) + 1 - i]]

Take(s, n) == SubSeq(s, 1, IF n < Len(s) THEN n ELSE Len(s))

RECURSIVE SeqSum(_)
SeqSum(s) == IF s = <<>> THEN 0 ELSE Head(s) + SeqSum(Tail(s))

RECURSIVE SetSum(_, _)
SetSum(S, f) ==
    IF S = {} THEN 0
    ELSE LET x == CHOOSE y \in S : TRUE IN f[x] + SetSum(S \ {x}, f)

SeqsUpTo(S, n) == UNION {[1..k -> S] : k \in 0..n}

Max(a, b) == IF a >= b THEN a ELSE b

RECURSIVE Pow10(_)
Pow10(k) == IF k = 0 THEN 1 ELSE 10 * Pow10(k - 1)

\* Python's round(): the nearest integer to n/d, a tie going to the even one.
RoundHalfEven(n, d) ==
    LET q == n \div d
        r == n % d
    IN  IF 2 * r < d THEN q
        ELSE IF 2 * r > d THEN q + 1
        ELSE IF q % 2 = 0 THEN q ELSE q + 1

-----------------------------------------------------------------------------
(* tools/nums.py *)

\* percentage(part, total, *, factor=2)
Factor == 2
Hundred == 100

\* A number: kind "int" or "float", h its value in hundredths.
Num(kind, h) == [kind |-> kind, h |-> h]

percentage_NoZeroGuard(part, total) ==
    IF total = 0 THEN [kind |-> "raise", exc |-> "ZeroDivisionError"]
    ELSE LET num == RoundHalfEven(part * Hundred * Pow10(Factor), total)
         IN  IF num % Pow10(Factor) = 0 THEN Num("int", num) ELSE Num("float", num)

percentage(part, total) ==
    IF total = 0 THEN Num("float", 0)
    ELSE LET num == RoundHalfEven(part * Hundred * Pow10(Factor), total)
         IN  IF num % Pow10(Factor) = 0 THEN Num("int", num) ELSE Num("float", num)

\* average(elements): elements in hundredths; the mean is num/den hundredths.
\* sum(elements) / len(elements) raises ZeroDivisionError on an empty list.
average(elements) ==
    IF Len(elements) = 0 THEN [kind |-> "raise", exc |-> "ZeroDivisionError"]
    ELSE LET s == SeqSum(elements)
             n == Len(elements)
         IN  IF s % (n * Pow10(Factor)) = 0
             THEN [kind |-> "int", num |-> s \div n, den |-> 1]
             ELSE [kind |-> "float", num |-> s, den |-> n]

NumIdle ==
    /\ num_part = 0
    /\ num_total = 0
    /\ num_elements = <<>>
    /\ num_op = "none"
    /\ num_result = [kind |-> "none"]

NumInit ==
    /\ num_part \in (0 - MaxNum)..MaxNum
    /\ num_total \in 0..MaxNum
    /\ num_elements \in SeqsUpTo({k * Hundred : k \in 0..MaxElements}, MaxElements)
    /\ num_op = "none"
    /\ num_result = [kind |-> "none"]

CallPercentage ==
    /\ num_op = "none"
    /\ num_op' = "percentage"
    /\ num_result' = percentage(num_part, num_total)
    /\ UNCHANGED <<num_part, num_total, num_elements>>
    /\ UNCHANGED <<execVars, statVars, depVars, moreVars>>

CallAverage ==
    /\ num_op = "none"
    /\ num_op' = "average"
    /\ num_result' = average(num_elements)
    /\ UNCHANGED <<num_part, num_total, num_elements>>
    /\ UNCHANGED <<execVars, statVars, depVars, moreVars>>

-----------------------------------------------------------------------------
(* execute *)

\* def error_trace(indicator, tb, logger, error): four required positionals
ErrorTraceParams == 4
\* error_trace(tb, logger, error): the call in execute passes three
ErrorTraceArgs == 3

ExecIdle ==
    /\ exec_pc = "idle"
    /\ files = <<>>
    /\ registered = TRUE
    /\ file_idx = 0
    /\ modules = <<>>
    /\ exec_log = <<>>
    /\ outputs = {}
    /\ exec_exc = "none"

ExecInit ==
    /\ exec_pc = "start"
    /\ files \in SeqsUpTo(BOOLEAN, MaxFiles)
    /\ registered \in BOOLEAN
    /\ file_idx = 0
    /\ modules = <<>>
    /\ exec_log = <<>>
    /\ outputs = {}
    /\ exec_exc = "none"

\* lines 38-44: scan, log the number of files, look the analyzer up
Scan ==
    /\ exec_pc = "start"
    /\ exec_pc' = "loop"
    /\ exec_log' = exec_log \o <<[level |-> "info", what |-> "scanning"],
                                 [level |-> "info", what |-> "found"]>>
    /\ UNCHANGED <<files, registered, file_idx, modules, outputs, exec_exc>>
    /\ UNCHANGED <<numVars, statVars, depVars, moreVars>>

\* method(file) raises: the file cannot be analysed, or method is None
AnalysisRaises(i) == files[i] \/ ~registered

\* error_trace(...) called with `passed` positional arguments: Python binds them
\* to the parameters before the body runs, and raises TypeError on a mismatch.
error_trace(passed, i) ==
    IF passed # ErrorTraceParams
    THEN [raised |-> "TypeError", log |-> <<>>]
    ELSE [raised |-> "none", log |-> <<[level |-> "error", what |-> i]>>]

\* lines 45-51: one iteration of `for file in files`
AnalyzeFile ==
    /\ exec_pc = "loop"
    /\ file_idx < Len(files)
    /\ LET i == file_idx + 1 IN
        /\ file_idx' = i
        /\ \/ /\ ~AnalysisRaises(i)
              /\ modules' = Append(modules, i)
              /\ UNCHANGED <<exec_pc, exec_log, exec_exc>>
           \/ /\ AnalysisRaises(i)
              /\ LET r == error_trace(ErrorTraceArgs, i) IN
                  /\ exec_log' = exec_log \o r.log
                  /\ exec_exc' = r.raised
                  /\ exec_pc' = IF r.raised = "none" THEN exec_pc ELSE "aborted"
              /\ UNCHANGED modules
    /\ UNCHANGED <<files, registered, outputs>>
    /\ UNCHANGED <<numVars, statVars, depVars, moreVars>>

\* lines 53-56
GenerateReadme ==
    /\ exec_pc = "loop"
    /\ file_idx = Len(files)
    /\ exec_pc' = "html"
    /\ outputs' = outputs \cup {"README"}
    /\ exec_log' = exec_log \o <<[level |-> "info", what |-> "README"]>>
    /\ UNCHANGED <<files, registered, file_idx, modules, exec_exc>>
    /\ UNCHANGED <<numVars, statVars, depVars, moreVars>>

\* lines 58-61
GenerateHtml ==
    /\ exec_pc = "html"
    /\ exec_pc' = "done"
    /\ outputs' = outputs \cup {"HTML"}
    /\ exec_log' = exec_log \o <<[level |-> "info", what |-> "HTML"]>>
    /\ UNCHANGED <<files, registered, file_idx, modules, exec_exc>>
    /\ UNCHANGED <<numVars, statVars, depVars, moreVars>>

-----------------------------------------------------------------------------
(* Python values the report generator compares and prints *)

\* The decimal digits of a natural number, as code points.
RECURSIVE Digits(_)
Digits(n) == IF n < 10 THEN <<48 + n>> ELSE Append(Digits(n \div 10), 48 + (n % 10))

\* f"{x}" for a number x: an int prints its digits; a float prints repr(x), the
\* integer part, a point and the decimals without a trailing zero ("12.5", "9.09").
FormatNumber(x) ==
    LET whole == x.h \div Pow10(Factor)
        frac  == x.h % Pow10(Factor)
    IN  IF x.kind = "int" THEN Digits(whole)
        ELSE Digits(whole) \o <<46>> \o
             (IF frac % 10 = 0 THEN <<48 + (frac \div 10)>>
              ELSE <<48 + (frac \div 10), 48 + (frac % 10)>>)

\* f"{x}%"
FormatPercent(x) == FormatNumber(x) \o <<37>>

\* str < str: by code point at the first difference, a proper prefix first.
StrLess(a, b) ==
    LET n     == IF Len(a) < Len(b) THEN Len(a) ELSE Len(b)
        diffs == {i \in 1..n : a[i] # b[i]}
    IN  IF diffs = {} THEN Len(a) < Len(b)
        ELSE LET k == CHOOSE i \in diffs : \A j \in diffs : i <= j
             IN  a[k] < b[k]

\* sorted(s, key=...) and sorted(s, key=..., reverse=True): before[i][j] says that
\* the key of s[i] orders strictly before the key of s[j]; elements with equal keys
\* keep the order they have in s (the sort is stable, also under reverse=True).
StableSort(s, before) ==
    LET n == Len(s)
        rank(i) == Cardinality({j \in 1..n :
                       \/ before[j][i]
                       \/ (~before[i][j] /\ j < i)}) + 1
    IN  [k \in 1..n |-> s[CHOOSE i \in 1..n : rank(i) = k]]

-----------------------------------------------------------------------------
(* generators/report.py: _hotspots *)

MaxModules == 3
MaxSloc == 5
MaxItems == 2

\* thresholds of _hotspots
VeryLargePercent == 20
RelevantPercent == 10
HotspotMethods == 15
LowDocPercent == 50
\* default `limit` of _best_documented_modules and _worst_documented_modules
BestLimit == 5
WorstLimit == 5

AtLeast(x, whole) == x.h >= whole * Pow10(Factor)
AtMost(x, whole)  == x.h <= whole * Pow10(Factor)

\* lines 211-228: the reasons one module triggers
HotspotReasons_BothSizes(stats, total) ==
    LET sloc_percent == percentage(stats.sloc, total)
        doc_percent  == IF stats.total_items # 0
                        THEN percentage(stats.documented_items, stats.total_items)
                        ELSE Num("int", 0)
    IN  (IF AtLeast(sloc_percent, VeryLargePercent) THEN <<"very large">> ELSE <<>>)
        \o (IF AtLeast(sloc_percent, RelevantPercent) THEN <<"relevant by size">> ELSE <<>>)
        \o (IF stats.n_methods >= HotspotMethods THEN <<"many methods">> ELSE <<>>)
        \o (IF stats.total_items # 0 /\ AtMost(doc_percent, LowDocPercent)
            THEN <<"low documentation coverage">> ELSE <<>>)

HotspotReasons(stats, total) ==
    LET sloc_percent == percentage(stats.sloc, total)
        doc_percent  == IF stats.total_items # 0
                        THEN percentage(stats.documented_items, stats.total_items)
                        ELSE Num("int", 0)
    IN  (IF AtLeast(sloc_percent, VeryLargePercent) THEN <<"very large">>
         ELSE IF AtLeast(sloc_percent, RelevantPercent) THEN <<"relevant by size">>
         ELSE <<>>)
        \o (IF stats.n_methods >= HotspotMethods THEN <<"many methods">> ELSE <<>>)
        \o (IF stats.total_items # 0 /\ AtMost(doc_percent, LowDocPercent)
            THEN <<"low documentation coverage">> ELSE <<>>)

\* lines 233-238: the row appended to candidates
HotspotCandidate(stats, total) ==
    [name    |-> stats.name,
     sloc    |-> stats.sloc,
     percent |-> FormatPercent(percentage(stats.sloc, total)),
     comment |-> HotspotReasons(stats, total)]

\* lines 240-244: key=(candidate['percent'], candidate['sloc']), reverse=True; the
\* first component is the formatted string, so the tuples compare str then int.
HotspotKeyLess(a, b) ==
    \/ StrLess(a.percent, b.percent)
    \/ (a.percent = b.percent /\ a.sloc < b.sloc)

HotspotBefore(a, b) == HotspotKeyLess(b, a)

_hotspots(total, stats_list) ==
    IF total = 0 THEN <<>>
    ELSE LET kept == SelectSeq(stats_list, LAMBDA stats :
                          stats.sloc # 0 /\ HotspotReasons(stats, total) # <<>>)
             candidates == [i \in 1..Len(kept) |-> HotspotCandidate(kept[i], total)]
         IN  StableSort(candidates,
                        [i \in 1..Len(kept) |-> [j \in 1..Len(kept) |->
                            HotspotBefore(candidates[i], candidates[j])]])

-----------------------------------------------------------------------------
(* generators/report.py: _best_documented_modules, _worst_documented_modules *)

\* lines 345-358 and 373-386: the candidates, in the order of module_stats
DocCandidates(stats_list) ==
    LET kept == SelectSeq(stats_list, LAMBDA stats : stats.total_items # 0)
    IN  [i \in 1..Len(kept) |->
            [name    |-> kept[i].name,
             text    |-> FormatPercent(percentage(kept[i].documented_items,
                                                  kept[i].total_items)),
             percent |-> percentage(kept[i].documented_items, kept[i].total_items)]]

\* key=lambda item: item['percent'], and the same key under reverse=True
PercentAscending(c) ==
    [i \in 1..Len(c) |-> [j \in 1..Len(c) |-> c[i].percent.h < c[j].percent.h]]

PercentDescending(c) ==
    [i \in 1..Len(c) |-> [j \in 1..Len(c) |-> c[i].percent.h > c[j].percent.h]]

_best_documented_modules_Ascending(stats_list, limit) ==
    LET c == DocCandidates(stats_list)
    IN  Take(StableSort(c, PercentAscending(c)), limit)

_best_documented_modules(stats_list, limit) ==
    LET c == DocCandidates(stats_list)
    IN  Take(StableSort(c, PercentDescending(c)), limit)

_worst_documented_modules(stats_list, limit) ==
    LET c == DocCandidates(stats_list)
    IN  Take(StableSort(c, PercentAscending(c)), limit)

-----------------------------------------------------------------------------
(* The per-module statistics the report generator is called with *)

StatRow(s, m, t, d) ==
    [sloc |-> s, n_methods |-> m, total_items |-> t, documented_items |-> d]

\* module_stats rows carry distinct names: the row's place in the list
Named(rows) ==
    [i \in 1..Len(rows) |->
        [name |-> i, sloc |-> rows[i].sloc, n_methods |-> rows[i].n_methods,
         total_items |-> rows[i].total_items,
         documented_items |-> rows[i].documented_items]]

\* total sloc of the repository: the sum over the modules
TotalSloc(rows) == SeqSum([i \in 1..Len(rows) |-> rows[i].sloc])

\* rows on both sides of every threshold of _hotspots
HotRows ==
    {StatRow(s, m, p[1], p[2]) :
        s \in {0, 1, MaxSloc},
        m \in {HotspotMethods - 1, HotspotMethods},
        p \in {<<0, 0>>, <<2, 1>>, <<3, 2>>}}

\* rows that differ in their documentation only
DocRows ==
    {StatRow(1, 0, p[1], p[2]) :
        p \in {q \in (0..MaxItems) \X (0..MaxItems) : q[2] <= q[1]}}

\* the value of a list the report has not computed yet, and of one it has
NotCalled == [called |-> FALSE, list |-> <<>>]
Returned(list) == [called |-> TRUE, list |-> list]

StatIdle ==
    /\ sloc = 0
    /\ module_stats = <<>>
    /\ hotspots = NotCalled
    /\ best_documented = NotCalled
    /\ worst_documented = NotCalled

StatInit(Rows) ==
    /\ module_stats \in {Named(rows) : rows \in SeqsUpTo(Rows, MaxModules)}
    /\ sloc = TotalSloc(module_stats)
    /\ hotspots = NotCalled
    /\ best_documented = NotCalled
    /\ worst_documented = NotCalled

\* generate_report line 66
CallHotspots ==
    /\ ~hotspots.called
    /\ hotspots' = Returned(_hotspots(sloc, module_stats))
    /\ UNCHANGED <<sloc, module_stats, best_documented, worst_documented>>
    /\ UNCHANGED <<execVars, numVars, depVars, moreVars>>

\* generate_report line 99
CallBestDocumented ==
    /\ ~best_documented.called
    /\ best_documented' = Returned(_best_documented_modules(module_stats, BestLimit))
    /\ UNCHANGED <<sloc, module_stats, hotspots, worst_documented>>
    /\ UNCHANGED <<execVars, numVars, depVars, moreVars>>

\* generate_report line 100
CallWorstDocumented ==
    /\ ~worst_documented.called
    /\ worst_documented' = Returned(_worst_documented_modules(module_stats, WorstLimit))
    /\ UNCHANGED <<sloc, module_stats, hotspots, best_documented>>
    /\ UNCHANGED <<execVars, numVars, depVars, moreVars>>

-----------------------------------------------------------------------------
(* generators/report.py: _dependencies *)

MaxMods == 3
FilesPerDir == 2
SmallLimit == 2
\* default `limit` of _dependencies
CoreLimit == 5
\* out-degree from which a module counts as dense
DenseOut == 5

\* Modules are numbered in the order of their path strings: module m is the file
\* number ((m - 1) % FilesPerDir) + 1 of directory (m - 1) \div FilesPerDir.
Mods == 1..MaxMods

\* Path(module).resolve().relative_to(Path(repository).resolve()).name: the last
\* component of the path, the same for equally named files of two directories
PathName(m) == ((m - 1) % FilesPerDir) + 1

Perms(S) == {s \in [1..Cardinality(S) -> S] : \A i, j \in 1..Cardinality(S) : s[i] = s[j] => i = j}

\* sorted(S) for a set of modules
RECURSIVE SortedSeq(_)
SortedSeq(S) ==
    IF S = {} THEN <<>>
    ELSE LET m == CHOOSE x \in S : \A y \in S : x <= y
         IN  <<m>> \o SortedSeq(S \ {m})

\* lines 420-427: `for dst in targets`, the targets taken in the order `order`
RECURSIVE VisitTargets(_, _)
VisitTargets(st, order) ==
    IF order = <<>> THEN st
    ELSE LET dst == Head(order) IN
         IF dst \in DOMAIN st.in_degree
         THEN VisitTargets([st EXCEPT !.in_degree[dst] = @ + 1], Tail(order))
         ELSE VisitTargets(
                [st EXCEPT
                    !.in_degree  = @ @@ (dst :> 1),
                    !.out_degree = IF dst \in DOMAIN @ THEN @ ELSE @ @@ (dst :> 0),
                    !.keys       = IF dst \in Range(@) THEN @ ELSE Append(@, dst),
                    !.targets    = IF dst \in DOMAIN @ THEN @ ELSE @ @@ (dst :> {})],
                Tail(order))

\* The order in which `for dst in targets` takes a set: `late` orders the targets
\* that are no key of dep_map (a set's iteration order is not fixed by its value).
TargetOrder(T, keyset, late) ==
    SortedSeq(T \cap keyset) \o SelectSeq(late, LAMBDA m : m \in T)

\* lines 419-427: `for _, targets in dep_map.items()`. The dict iterator remembers
\* the size dep_map had when the loop began; asked for the next item of a dict
\* whose size has changed, it raises RuntimeError.
RECURSIVE DegreeLoop(_, _, _, _, _)
DegreeLoop(i, size, keyset, late, st) ==
    IF Len(st.keys) # size THEN [st EXCEPT !.raised = "RuntimeError"]
    ELSE IF i > size THEN st
    ELSE DegreeLoop(i + 1, size, keyset, late,
                    VisitTargets(st, TargetOrder(st.targets[st.keys[i]], keyset, late)))

\* lines 412-427
Degrees(keys, targets, late) ==
    DegreeLoop(1, Len(keys), Range(keys), late,
               [keys       |-> keys,
                targets    |-> targets,
                out_degree |-> [m \in Range(keys) |-> Cardinality(targets[m])],
                in_degree  |-> [m \in Range(keys) |-> 0],
                raised     |-> "none"])

Get(f, m) == IF m \in DOMAIN f THEN f[m] ELSE 0

\* lines 435-438
Independent_Either(all_modules, in_degree, out_degree) ==
    SelectSeq(all_modules, LAMBDA m : Get(out_degree, m) = 0 \/ Get(in_degree, m) = 0)

Independent(all_modules, in_degree, out_degree) ==
    SelectSeq(all_modules, LAMBDA m : Get(out_degree, m) = 0 /\ Get(in_degree, m) = 0)

\* lines 441-442
AvgDep(total_edges, num_modules) ==
    IF num_modules = 0 THEN Num("int", 0)
    ELSE IF total_edges % num_modules = 0
         THEN Num("int", (total_edges \div num_modules) * Pow10(Factor))
         ELSE Num("float", RoundHalfEven(total_edges * Pow10(Factor), num_modules))

\* lines 445-453: (module, in + out, in, out)
Centrality(all_modules, in_degree, out_degree) ==
    [i \in 1..Len(all_modules) |->
        LET m == all_modules[i]
        IN  <<m, Get(in_degree, m) + Get(out_degree, m), Get(in_degree, m), Get(out_degree, m)>>]

\* line 455: key=lambda tpl: (tpl[1], tpl[2], tpl[3]), reverse=True
CentralityBefore_TotalOnly(a, b) == a[2] > b[2]

CentralityBefore(a, b) ==
    \/ a[2] > b[2]
    \/ (a[2] = b[2] /\ a[3] > b[3])
    \/ (a[2] = b[2] /\ a[3] = b[3] /\ a[4] > b[4])

\* lines 457-461
CoreModules(centrality, limit) ==
    LET n      == Len(centrality)
        ranked == StableSort(centrality,
                      [i \in 1..n |-> [j \in 1..n |->
                          CentralityBefore(centrality[i], centrality[j])]])
        top    == SelectSeq(Take(ranked, limit), LAMBDA tpl : tpl[3] + tpl[4] > 0)
    IN  [i \in 1..Len(top) |-> PathName(top[i][1])]

\* lines 463 and 492 with the minimum of one left out
IsDense_NoMinimum(all_modules, out_degree) ==
    LET dense == Cardinality({i \in 1..Len(all_modules) :
                                 Get(out_degree, all_modules[i]) >= DenseOut})
    IN  dense >= Len(all_modules) \div 5

\* lines 463 and 492: int(0.2 * num_modules) is the floor of num_modules / 5
IsDense(all_modules, out_degree) ==
    LET dense == Cardinality({i \in 1..Len(all_modules) :
                                 Get(out_degree, all_modules[i]) >= DenseOut})
    IN  dense >= Max(1, Len(all_modules) \div 5)

\* _dependencies(dep_map, repository, limit=limit): what it leaves behind
_dependencies(keys, targets, limit, late) ==
    IF keys = <<>>
    THEN [keys |-> keys, targets |-> targets, pc |-> "returned",
          frame  |-> [in_degree |-> <<>>, out_degree |-> <<>>],
          result |-> [kind |-> "return", independent_modules |-> 0,
                      avg_dependencies |-> Num("int", 0), core_modules |-> <<>>,
                      summary |-> "No dependencies were detected"]]
    ELSE
    LET st == Degrees(keys, targets, late) IN
    IF st.raised # "none"
    THEN [keys |-> st.keys, targets |-> st.targets, pc |-> "raised",
          frame  |-> [in_degree |-> st.in_degree, out_degree |-> st.out_degree],
          result |-> [kind |-> "raise", exc |-> st.raised]]
    ELSE
    LET all_modules == SortedSeq(DOMAIN st.out_degree \cup DOMAIN st.in_degree)
        num_modules == Len(all_modules)
        independent == Independent(all_modules, st.in_degree, st.out_degree)
        total_edges == SeqSum([i \in 1..num_modules |-> Get(st.out_degree, all_modules[i])])
        avg_dep     == AvgDep(total_edges, num_modules)
        core        == CoreModules(Centrality(all_modules, st.in_degree, st.out_degree), limit)
    IN  [keys |-> st.keys, targets |-> st.targets, pc |-> "returned",
         frame  |-> [in_degree |-> st.in_degree, out_degree |-> st.out_degree,
                     all_modules |-> all_modules, independent |-> independent,
                     total_edges |-> total_edges],
         result |-> [kind |-> "return",
                     independent_modules |-> Len(independent),
                     avg_dependencies |-> avg_dep,
                     core_modules |-> core,
                     summary |-> [num_modules |-> num_modules,
                                  total_edges |-> total_edges,
                                  avg_dep |-> avg_dep,
                                  independent |-> Len(independent),
                                  core_modules |-> core,
                                  dense |-> IsDense(all_modules, st.out_degree)]]]

\* the j-th module other than k
OtherMod(k, j) == IF j < k THEN j ELSE j + 1

DepIdle ==
    /\ dep_keys = <<>>
    /\ dep_targets = <<>>
    /\ dep_limit = CoreLimit
    /\ dep_pc = "idle"
    /\ dep_frame = [in_degree |-> <<>>, out_degree |-> <<>>]
    /\ dep_result = [kind |-> "none"]

\* A DependencyMap: distinct keys in any insertion order, each with the set of
\* modules it references (no module references itself).
DepInit ==
    /\ dep_keys \in UNION {Perms(K) : K \in SUBSET Mods}
    /\ dep_targets \in {[k \in Range(dep_keys) |-> {OtherMod(k, j) : j \in g[k]}] :
                            g \in [Range(dep_keys) -> SUBSET (1..(MaxMods - 1))]}
    /\ dep_limit \in {SmallLimit, CoreLimit}
    /\ dep_pc = "idle"
    /\ dep_frame = [in_degree |-> <<>>, out_degree |-> <<>>]
    /\ dep_result = [kind |-> "none"]

\* maps over up to MaxHubMods modules in which every module imports no module,
\* the next module, or every other module
MaxHubMods == 6

HubInit ==
    /\ \E n \in 0..MaxHubMods :
        /\ dep_keys = [i \in 1..n |-> i]
        /\ dep_targets \in {[k \in 1..n |->
                                IF g[k] = "all" THEN (1..n) \ {k}
                                ELSE IF g[k] = "next" THEN {(k % n) + 1} \ {k}
                                ELSE {}] :
                            g \in [1..n -> {"none", "next", "all"}]}
    /\ dep_limit = CoreLimit
    /\ dep_pc = "idle"
    /\ dep_frame = [in_degree |-> <<>>, out_degree |-> <<>>]
    /\ dep_result = [kind |-> "none"]

\* generate_report line 74
CallDependencies ==
    /\ dep_pc = "idle"
    /\ \E late \in Perms(UNION {dep_targets[k] : k \in Range(dep_keys)} \ Range(dep_keys)) :
        \E r \in {_dependencies(dep_keys, dep_targets, dep_limit, late)} :
        /\ dep_keys' = r.keys
        /\ dep_targets' = r.targets
        /\ dep_pc' = r.pc
        /\ dep_frame' = r.frame
        /\ dep_result' = r.result
    /\ UNCHANGED dep_limit
    /\ UNCHANGED <<execVars, numVars, statVars, moreVars>>

-----------------------------------------------------------------------------
(* generators/graphic.py: _paths *)

MaxPathModules == 2

\* the framework values _paths branches on, and two values it has no branch for
Frameworks == {"csharp", "python", "java", "go"}

\* Path(repository).resolve(), and module paths below it, as path tokens
RepositoryRoot == <<"/", "repo", "/">>
ModulePaths == {RepositoryRoot \o rel : rel \in {<<"a", ".py">>, <<"pkg", "/", "a", ".py">>,
                                                 <<"pkg", "/", "b", ".cs">>}}

\* module.imports: a namespace reference carries the tag "__ns__:" in front
ImportLists ==
    {<<>>, <<<<"os">>>>, <<<<"__ns__:", "N1">>>>,
     <<<<"__ns__:", "N1">>, <<"__ns__:", "N2">>>>}

PathModules == [path : ModulePaths, imports : ImportLists]

\* Path(module.path).resolve().relative_to(root)
RelativeTo(path, root) == SubSeq(path, Len(root) + 1, Len(path))

\* relative.with_suffix('').as_posix().replace('/', '.')
LogicalName(relative) ==
    LET stem == SubSeq(relative, 1, Len(relative) - 1)
    IN  [i \in 1..Len(stem) |-> IF stem[i] = "/" THEN "." ELSE stem[i]]

\* lines 120-123: the csharp branch for one module
RECURSIVE NamespaceImports(_, _, _)
NamespaceImports(dct, imports, path) ==
    IF imports = <<>> THEN dct
    ELSE LET imp  == Head(imports)
             next == IF Head(imp) = "__ns__:"
                     THEN LET ns == Tail(imp)
                          IN  IF ns \in DOMAIN dct
                              THEN [dct EXCEPT ![ns] = @ \cup {path}]
                              ELSE dct @@ (ns :> {path})
                     ELSE dct
         IN  NamespaceImports(next, Tail(imports), path)

\* lines 118-131: the loop over modules from module number i on, then the return
RECURSIVE PathsLoop(_, _, _, _)
PathsLoop(dct, mods, i, framework) ==
    IF i > Len(mods) THEN [kind |-> "return", dct |-> dct]
    ELSE IF framework = "csharp"
         THEN PathsLoop(NamespaceImports(dct, mods[i].imports, mods[i].path),
                        mods, i + 1, framework)
    ELSE IF framework = "python"
         THEN LET name == LogicalName(RelativeTo(mods[i].path, RepositoryRoot))
              IN  PathsLoop([k \in DOMAIN dct \cup {name} |->
                                IF k = name THEN mods[i].path ELSE dct[k]],
                            mods, i + 1, framework)
    ELSE [kind |-> "raise", exc |-> "ValueError", names |-> framework]

\* line 114: dct = {}
_paths(mods, framework) == PathsLoop(<<>>, mods, 1, framework)

PathIdle ==
    /\ pth_framework = "none"
    /\ pth_modules = <<>>
    /\ pth_result = [kind |-> "none"]

PathInit ==
    /\ pth_framework \in Frameworks
    /\ pth_modules \in SeqsUpTo(PathModules, MaxPathModules)
    /\ pth_result = [kind |-> "none"]

\* _build_map line 83
CallPaths ==
    /\ pth_result.kind = "none"
    /\ pth_framework # "none"
    /\ pth_result' = _paths(pth_modules, pth_framework)
    /\ UNCHANGED <<pth_framework, pth_modules>>
    /\ UNCHANGED <<execVars, numVars, statVars, depVars, strVars, noteVars, riskVars, aggVars, logVars>>

-----------------------------------------------------------------------------
(* utils/strings.py: DocStrings *)

MaxDocLines == 3

\* A str is the sequence of its characters.
Whitespace == {" ", "\n", "\t"}

RECURSIVE LStrip(_)
LStrip(s) == IF s # <<>> /\ Head(s) \in Whitespace THEN LStrip(Tail(s)) ELSE s

RECURSIVE RStrip(_)
RStrip(s) ==
    IF s # <<>> /\ s[Len(s)] \in Whitespace THEN RStrip(SubSeq(s, 1, Len(s) - 1)) ELSE s

Strip(s) == LStrip(RStrip(s))

\* str.splitlines(): a line break ends a line, so a final one opens no new line
RECURSIVE SplitLines(_)
SplitLines(s) ==
    IF s = <<>> THEN <<>>
    ELSE LET breaks == {i \in 1..Len(s) : s[i] = "\n"}
         IN  IF breaks = {} THEN <<s>>
             ELSE LET k == CHOOSE i \in breaks : \A j \in breaks : i <= j
                  IN  <<SubSeq(s, 1, k - 1)>> \o SplitLines(SubSeq(s, k + 1, Len(s)))

\* '\n'.join(lines)
RECURSIVE JoinLines(_)
JoinLines(lines) ==
    IF lines = <<>> THEN <<>>
    ELSE IF Len(lines) = 1 THEN lines[1]
    ELSE lines[1] \o <<"\n">> \o JoinLines(Tail(lines))

\* line.replace(token, ''): occurrences are found from the left, without overlap,
\* in the line as it was; what the removals leave side by side is not scanned again
RECURSIVE Replace(_, _)
Replace(line, token) ==
    IF token = <<>> \/ Len(line) < Len(token) THEN line
    ELSE IF SubSeq(line, 1, Len(token)) = token
         THEN Replace(SubSeq(line, Len(token) + 1, Len(line)), token)
         ELSE <<Head(line)>> \o Replace(Tail(line), token)

\* lines 167-183
get_lines(doc) == SplitLines(Strip(doc))

\* lines 124-139
tabulation(doc) ==
    LET lines == get_lines(doc)
    IN  JoinLines([i \in 1..Len(lines) |-> <<"\t">> \o Strip(lines[i])])

\* lines 160-161: for token in cleaned: line = line.replace(token, '')
RECURSIVE CleanLine(_, _)
CleanLine(line, tokens) ==
    IF tokens = <<>> THEN line
    ELSE CleanLine(Replace(line, Head(tokens)), Tail(tokens))

\* lines 141-165
clean(doc, tokens) ==
    LET lines == get_lines(doc)
    IN  JoinLines([i \in 1..Len(lines) |-> CleanLine(lines[i], tokens)])

\* A value passed as `cleaned`: its type and, for a container, its items.
\* bool(cleaned): None and 0 are false, a container is true when it has items.
Truthy(cleaned) ==
    IF cleaned.type = "NoneType" THEN FALSE
    ELSE IF cleaned.type = "int" THEN cleaned.value # 0
    ELSE cleaned.items # <<>>

\* lines 51-57 and 89-95: the guard both methods put around __clean
CleanedGuard(doc, cleaned) ==
    IF Truthy(cleaned)
    THEN IF cleaned.type # "list"
         THEN [kind |-> "raise", exc |-> "TypeError"]
         ELSE [kind |-> "return", text |-> clean(doc, cleaned.items)]
    ELSE [kind |-> "raise", exc |-> "ValueError"]

\* lines 21-59
to_readme(doc, tab, cleaned) ==
    CleanedGuard(IF tab THEN tabulation(doc) ELSE doc, cleaned)

\* lines 102-120: the loop over lines from line i on, then the closing of the list
RECURSIVE HtmlLoop(_, _, _, _)
HtmlLoop(lines, i, in_list, out) ==
    IF i > Len(lines)
    THEN IF in_list THEN Append(out, <<"</ul>">>) ELSE out
    ELSE LET line     == lines[i]
             stripped == LStrip(line)
         IN  IF Len(stripped) >= 2 /\ SubSeq(stripped, 1, 2) = <<"-", " ">>
             THEN HtmlLoop(lines, i + 1, TRUE,
                      (IF in_list THEN out ELSE Append(out, <<"<ul>">>))
                      \o <<<<"<li>">> \o SubSeq(stripped, 3, Len(stripped)) \o <<"</li>">>>>)
             ELSE HtmlLoop(lines, i + 1, FALSE,
                      (IF in_list THEN Append(out, <<"</ul>">>) ELSE out)
                      \o (IF line # <<>> THEN <<<<"<p>">> \o line \o <<"</p>">>>> ELSE <<>>))

\* lines 61-122
to_html(doc, cleaned) ==
    LET guarded == CleanedGuard(doc, cleaned)
    IN  IF guarded.kind = "raise" THEN guarded
        ELSE [kind |-> "return",
              text |-> JoinLines(HtmlLoop(get_lines(guarded.text), 1, FALSE, <<>>))]

\* the lines the documents are made of, and the token lists and other values
\* that callers pass as `cleaned`
DocLines ==
    {<<>>, <<"a", "*", "b">>, <<"a", "a", "b", "b">>, <<"-", " ", "a">>,
     <<" ", "-", " ", "*", "b">>, <<"<ul>">>}

TokenLists == {<<>>, <<<<"*">>>>, <<<<"a", "b">>>>, <<<<"*">>, <<"a", "b">>>>}

CleanedValues ==
    {[type |-> "NoneType"]}
    \cup {[type |-> "int", value |-> v] : v \in {0, 1}}
    \cup {[type |-> ty, items |-> ts] : ty \in {"list", "tuple"}, ts \in TokenLists}
    \cup {[type |-> "str", items |-> s] : s \in {<<>>, <<"*">>}}

StrIdle ==
    /\ str_doc = <<>>
    /\ str_tab = TRUE
    /\ str_cleaned = [type |-> "NoneType"]
    /\ str_op = "idle"
    /\ str_result = [kind |-> "none"]

StrInit ==
    /\ str_doc \in {JoinLines(ls) : ls \in SeqsUpTo(DocLines, MaxDocLines)}
    /\ str_tab \in BOOLEAN
    /\ str_cleaned \in CleanedValues
    /\ str_op = "none"
    /\ str_result = [kind |-> "none"]

\* DocStrings.to_readme(doc, tabulation=..., cleaned=...)
CallToReadme ==
    /\ str_op = "none"
    /\ str_op' = "to_readme"
    /\ str_result' = to_readme(str_doc, str_tab, str_cleaned)
    /\ UNCHANGED <<str_doc, str_tab, str_cleaned>>
    /\ UNCHANGED <<execVars, numVars, statVars, depVars, pathVars, noteVars, riskVars, aggVars, logVars>>

\* DocStrings.to_html(doc, cleaned=...)
CallToHtml ==
    /\ str_op = "none"
    /\ str_op' = "to_html"
    /\ str_result' = to_html(str_doc, str_cleaned)
    /\ UNCHANGED <<str_doc, str_tab, str_cleaned>>
    /\ UNCHANGED <<execVars, numVars, statVars, depVars, pathVars, noteVars, riskVars, aggVars, logVars>>

-----------------------------------------------------------------------------
(* generators/report.py: _complexity_notes *)

MaxNoteModules == 6

\* default `limit` of _complexity_notes
NotesLimit == 10
\* LARGE_SLOC and MANY_METHODS
LargeSloc == 1000
ManyMethods == 30
\* if sloc_top_percent >= 50
ConcentrationNotePercent == 50

\* sorted(module_stats, key=lambda module: int(module['sloc']), reverse=True)
SortedBySloc(stats_list) ==
    StableSort(stats_list,
               [i \in 1..Len(stats_list) |-> [j \in 1..Len(stats_list) |->
                   stats_list[i].sloc > stats_list[j].sloc]])

\* [module['name'] for module in list]
NamesOf(list) == [i \in 1..Len(list) |-> list[i].name]

\* line 296 with the quotient rounded up
NotesTopCount_Ceil(n_modules) == Max(1, (n_modules + 4) \div 5)

\* line 296: top_count = max(1, int(n_modules * 0.2))
NotesTopCount(n_modules) == Max(1, n_modules \div 5)

\* lines 259-269: avg_methods is printed with one decimal (in tenths here)
AveragesNote(total, stats_list) ==
    LET n_modules     == Len(stats_list)
        total_methods == SeqSum([i \in 1..n_modules |-> stats_list[i].n_methods])
    IN  [kind |-> "averages", n_modules |-> n_modules,
         avg_sloc |-> total \div n_modules,
         avg_methods |-> RoundHalfEven(total_methods * 10, n_modules)]

\* lines 272-287
LargeNotes(stats_list, limit) ==
    LET large_modules == SelectSeq(stats_list, LAMBDA module : module.sloc >= LargeSloc)
    IN  IF large_modules = <<>> THEN <<>>
        ELSE <<[kind |-> "large", count |-> Len(large_modules),
                plural |-> Len(large_modules) # 1,
                names |-> NamesOf(Take(large_modules, limit))]>>

\* lines 290-298: the modules of the concentration group
TopModules(stats_list) == Take(SortedBySloc(stats_list), NotesTopCount(Len(stats_list)))

\* lines 298-307
ConcentrationNotes(total, stats_list, limit) ==
    LET top_modules      == TopModules(stats_list)
        sloc_top         == SeqSum([i \in 1..Len(top_modules) |-> top_modules[i].sloc])
        sloc_top_percent == percentage(sloc_top, total)
    IN  IF sloc_top_percent.h >= ConcentrationNotePercent * Hundred
        THEN <<[kind |-> "concentration", top_count |-> Len(top_modules),
                names |-> NamesOf(Take(top_modules, limit)),
                percent |-> sloc_top_percent]>>
        ELSE <<>>

\* lines 310-319
ManyMethodsNotes(stats_list, limit) ==
    LET heavy == SelectSeq(stats_list, LAMBDA module : module.n_methods >= ManyMethods)
    IN  IF heavy = <<>> THEN <<>>
        ELSE <<[kind |-> "many_methods", names |-> NamesOf(Take(heavy, limit))]>>

\* lines 246-321 with the last two notes in the other order
_complexity_notes_Reordered(total, stats_list, limit) ==
    IF total = 0 \/ stats_list = <<>>
    THEN [called |-> TRUE, list |-> <<>>, top_modules |-> <<>>]
    ELSE [called |-> TRUE,
          list |-> Take(<<AveragesNote(total, stats_list)>>
                        \o LargeNotes(stats_list, limit)
                        \o ManyMethodsNotes(stats_list, limit)
                        \o ConcentrationNotes(total, stats_list, limit), limit),
          top_modules |-> TopModules(stats_list)]

\* lines 246-321: the returned notes, and the local top_modules when it was left
_complexity_notes(total, stats_list, limit) ==
    IF total = 0 \/ stats_list = <<>>
    THEN [called |-> TRUE, list |-> <<>>, top_modules |-> <<>>]
    ELSE [called |-> TRUE,
          list |-> Take(<<AveragesNote(total, stats_list)>>
                        \o LargeNotes(stats_list, limit)
                        \o ConcentrationNotes(total, stats_list, limit)
                        \o ManyMethodsNotes(stats_list, limit), limit),
          top_modules |-> TopModules(stats_list)]

\* rows on both sides of the thresholds of _complexity_notes, and rows that
\* differ in size only, for the longer lists
NoteRows ==
    {StatRow(s, m, 0, 0) : s \in {0, 1, LargeSloc}, m \in {ManyMethods - 1, ManyMethods}}

SizeRows == {StatRow(s, 0, 0, 0) : s \in {0, 1, LargeSloc}}

NotesIdle ==
    /\ notes_limit = NotesLimit
    /\ complexity_notes = [called |-> FALSE, list |-> <<>>, top_modules |-> <<>>]

NotesInit ==
    /\ module_stats \in
         {Named(rows) : rows \in SeqsUpTo(NoteRows, MaxModules)
                                 \cup UNION {[1..k -> SizeRows] :
                                                k \in (MaxModules + 1)..MaxNoteModules}}
    /\ sloc = TotalSloc(module_stats)
    /\ hotspots = NotCalled
    /\ best_documented = NotCalled
    /\ worst_documented = NotCalled
    /\ notes_limit \in {SmallLimit, NotesLimit}
    /\ complexity_notes = [called |-> FALSE, list |-> <<>>, top_modules |-> <<>>]

\* generate_report line 97
CallComplexityNotes ==
    /\ ~complexity_notes.called
    /\ complexity_notes' = _complexity_notes(sloc, module_stats, notes_limit)
    /\ UNCHANGED notes_limit
    /\ UNCHANGED <<execVars, numVars, statVars, depVars, pathVars, strVars, riskVars, aggVars, logVars>>

-----------------------------------------------------------------------------
(* generators/report.py: _risks and _recommendations *)

\* default `limit` of _risks and of _recommendations
RisksLimit == 8
RecLimit == 6
\* thresholds of _risks
LowDocRisk == 35
ModerateDocRisk == 55
ConcentrationRiskPercent == 60
VeryLargeSloc == 1500
TooManyMethods == 40
\* thresholds of _recommendations
LowDocRec == 35
ModerateDocRec == 60
HighDeps == 5
ModerateDeps == 2
ManyIndependent == 5

\* avg_doc < k, for the value average() returned (num / den hundredths)
AvgBelow(avg, k) == avg.num < k * Hundred * avg.den

\* lines 531-542 with the low threshold inclusive
DocRisks_Inclusive(percents) ==
    LET avg_doc == average(percents)
    IN  IF avg_doc.num <= LowDocRisk * Hundred * avg_doc.den
        THEN <<[kind |-> "low_documentation"]>>
        ELSE IF AvgBelow(avg_doc, ModerateDocRisk)
             THEN <<[kind |-> "moderate_documentation"]>>
             ELSE <<>>

\* lines 531-542
DocRisks(percents) ==
    LET avg_doc == average(percents)
    IN  IF AvgBelow(avg_doc, LowDocRisk) THEN <<[kind |-> "low_documentation"]>>
        ELSE IF AvgBelow(avg_doc, ModerateDocRisk)
             THEN <<[kind |-> "moderate_documentation"]>>
             ELSE <<>>

\* line 548: top_count = max(1, int(n_modules * 0.2))
RisksTopCount(n_modules) == Max(1, n_modules \div 5)

\* line 556 with the threshold of the concentration note
IsConcentrated_AtNoteThreshold(top_percent) ==
    top_percent.h >= ConcentrationNotePercent * Hundred

\* line 556: if top_percent >= 60
IsConcentrated(top_percent) == top_percent.h >= ConcentrationRiskPercent * Hundred

\* lines 546-550: top_modules = sorted_by_sloc[:top_count]
RisksTopModules(stats_list) ==
    Take(SortedBySloc(stats_list), RisksTopCount(Len(stats_list)))

\* lines 545-559: the sentence embeds top_percent and top_count
ConcentrationRisks(total, stats_list) ==
    IF total = 0 THEN <<>>
    ELSE LET top_count   == RisksTopCount(Len(stats_list))
             top_modules == RisksTopModules(stats_list)
             top_sloc    == SeqSum([i \in 1..Len(top_modules) |-> top_modules[i].sloc])
             top_percent == percentage(top_sloc, total)
         IN  IF IsConcentrated(top_percent)
             THEN <<[kind |-> "concentration", percent |-> top_percent,
                     top_count |-> top_count]>>
             ELSE <<>>

\* lines 562-589 with the hotspot risk appended before the size risks
SignalRisks_HotspotsFirst(stats_list, hot, deps) ==
    (IF hot # <<>> THEN <<[kind |-> "hotspots_detected"]>> ELSE <<>>)
    \o (IF \E i \in 1..Len(stats_list) : stats_list[i].sloc >= VeryLargeSloc
        THEN <<[kind |-> "very_large_modules"]>> ELSE <<>>)
    \o (IF \E i \in 1..Len(stats_list) : stats_list[i].n_methods >= TooManyMethods
        THEN <<[kind |-> "high_complexity"]>> ELSE <<>>)
    \o (IF deps.core_modules # <<>>
        THEN <<[kind |-> "concentrated_dependencies"]>> ELSE <<>>)

\* lines 562-589: the risks that carry no number
SignalRisks(stats_list, hot, deps) ==
    (IF \E i \in 1..Len(stats_list) : stats_list[i].sloc >= VeryLargeSloc
     THEN <<[kind |-> "very_large_modules"]>> ELSE <<>>)
    \o (IF \E i \in 1..Len(stats_list) : stats_list[i].n_methods >= TooManyMethods
        THEN <<[kind |-> "high_complexity"]>> ELSE <<>>)
    \o (IF hot # <<>> THEN <<[kind |-> "hotspots_detected"]>> ELSE <<>>)
    \o (IF deps.core_modules # <<>>
        THEN <<[kind |-> "concentrated_dependencies"]>> ELSE <<>>)

\* lines 508-591
_risks(total, percents, stats_list, hot, deps, limit) ==
    IF stats_list = <<>>
    THEN [called |-> TRUE, list |-> <<[kind |-> "not_calculable"]>>, top_modules |-> <<>>]
    ELSE [called |-> TRUE,
          list |-> Take(DocRisks(percents) \o ConcentrationRisks(total, stats_list)
                        \o SignalRisks(stats_list, hot, deps), limit),
          top_modules |-> IF total = 0 THEN <<>> ELSE RisksTopModules(stats_list)]

\* lines 794-816, without the fallback of lines 818-821
RefactorBucket_NoFallback(stats_list, hot, limit) ==
    LET sorted_by_sloc == SortedBySloc(stats_list)
        big   == SelectSeq(sorted_by_sloc, LAMBDA module : module.sloc >= VeryLargeSloc)
        heavy == SelectSeq(sorted_by_sloc, LAMBDA module : module.n_methods >= TooManyMethods)
    IN  (IF hot # <<>>
         THEN <<[kind |-> "refactor_hotspots", names |-> NamesOf(Take(hot, limit))]>>
         ELSE <<>>)
        \o (IF big # <<>>
            THEN <<[kind |-> "split_large", names |-> NamesOf(Take(big, limit))]>>
            ELSE <<>>)
        \o (IF heavy # <<>>
            THEN <<[kind |-> "reduce_methods", names |-> NamesOf(Take(heavy, limit))]>>
            ELSE <<>>)

\* lines 794-821: the refactor bucket
RefactorBucket(stats_list, hot, limit) ==
    LET sorted_by_sloc == SortedBySloc(stats_list)
        big   == SelectSeq(sorted_by_sloc, LAMBDA module : module.sloc >= VeryLargeSloc)
        heavy == SelectSeq(sorted_by_sloc, LAMBDA module : module.n_methods >= TooManyMethods)
        rules == (IF hot # <<>>
                  THEN <<[kind |-> "refactor_hotspots", names |-> NamesOf(Take(hot, limit))]>>
                  ELSE <<>>)
                 \o (IF big # <<>>
                     THEN <<[kind |-> "split_large", names |-> NamesOf(Take(big, limit))]>>
                     ELSE <<>>)
                 \o (IF heavy # <<>>
                     THEN <<[kind |-> "reduce_methods", names |-> NamesOf(Take(heavy, limit))]>>
                     ELSE <<>>)
    IN  IF rules = <<>> THEN <<[kind |-> "no_urgent_refactoring"]>> ELSE rules

\* lines 824-849: the docs bucket
DocsBucket(percents, hot, limit) ==
    LET avg_doc == average(percents)
    IN  (IF AvgBelow(avg_doc, LowDocRec)
         THEN <<[kind |-> "increase_base_documentation"],
                [kind |-> "document_critical_modules"]>>
         ELSE IF AvgBelow(avg_doc, ModerateDocRec)
              THEN <<[kind |-> "reinforce_documentation"],
                     [kind |-> "docstring_consistency"]>>
              ELSE <<[kind |-> "maintain_documentation"]>>)
        \o (IF hot # <<>>
            THEN <<[kind |-> "examples_in_hotspots", names |-> NamesOf(Take(hot, limit))]>>
            ELSE <<>>)

\* lines 852-880 with the ladder on avg_deps > 5 / > 2
ArchitectureBucket_StrictLadder(deps, limit) ==
    (IF deps.core_modules # <<>>
     THEN <<[kind |-> "core_contracts", names |-> Take(deps.core_modules, limit)]>>
     ELSE <<>>)
    \o (IF deps.avg_dependencies.h > HighDeps * Hundred
        THEN <<[kind |-> "reduce_coupling"], [kind |-> "avoid_circular"]>>
        ELSE IF deps.avg_dependencies.h > ModerateDeps * Hundred
             THEN <<[kind |-> "review_dependencies"]>>
             ELSE <<[kind |-> "modular_structure"]>>)
    \o (IF deps.independent_modules >= ManyIndependent
        THEN <<[kind |-> "review_independent"]>> ELSE <<>>)

\* lines 852-880: the architecture bucket
ArchitectureBucket(deps, limit) ==
    (IF deps.core_modules # <<>>
     THEN <<[kind |-> "core_contracts", names |-> Take(deps.core_modules, limit)]>>
     ELSE <<>>)
    \o (IF deps.avg_dependencies.h >= HighDeps * Hundred
        THEN <<[kind |-> "reduce_coupling"], [kind |-> "avoid_circular"]>>
        ELSE IF deps.avg_dependencies.h >= ModerateDeps * Hundred
             THEN <<[kind |-> "review_dependencies"]>>
             ELSE <<[kind |-> "modular_structure"]>>)
    \o (IF deps.independent_modules >= ManyIndependent
        THEN <<[kind |-> "review_independent"]>> ELSE <<>>)

\* lines 756-886 without the short-circuit of lines 776-778
_recommendations_NoShortCircuit(percents, stats_list, hot, deps, limit) ==
    [refactor     |-> Take(RefactorBucket(stats_list, hot, limit), limit),
     docs         |-> Take(DocsBucket(percents, hot, limit), limit),
     architecture |-> Take(ArchitectureBucket(deps, limit), limit)]

\* lines 756-886
_recommendations(percents, stats_list, hot, deps, limit) ==
    IF stats_list = <<>>
    THEN [refactor |-> <<>>, docs |-> <<>>,
          architecture |-> <<[kind |-> "not_enough_statistics"]>>]
    ELSE [refactor     |-> Take(RefactorBucket(stats_list, hot, limit), limit),
          docs         |-> Take(DocsBucket(percents, hot, limit), limit),
          architecture |-> Take(ArchitectureBucket(deps, limit), limit)]

\* rows on both sides of the thresholds of _risks and _recommendations
RiskRows ==
    {StatRow(0, TooManyMethods, 0, 0), StatRow(1, 0, 0, 0),
     StatRow(1, TooManyMethods - 1, 0, 0), StatRow(VeryLargeSloc, 0, 0, 0),
     StatRow(VeryLargeSloc, TooManyMethods, 0, 0)}

\* lists long enough for a top group of more than one module
MaxShortRisk == 2
MaxRiskModules == 10

\* a very large modules, then b modules of one line, then empty modules
BlockRows(n, a, b) ==
    [i \in 1..n |-> StatRow(IF i <= a THEN VeryLargeSloc ELSE IF i <= a + b THEN 1 ELSE 0,
                            0, 0, 0)]

RiskLists ==
    SeqsUpTo(RiskRows, MaxShortRisk)
    \cup {BlockRows(n, a, b) : n \in {MaxRiskModules \div 2, MaxRiskModules},
                              a \in 0..MaxRiskModules, b \in 0..MaxRiskModules}

\* coverage percentages around the thresholds 35, 55 and 60 of the average
CoverageTriples ==
    {<<0, 0, 0>>, <<3499, 3500, 3500>>, <<0, 10000, 500>>, <<5499, 5500, 5500>>,
     <<5500, 5500, 5500>>, <<5999, 6000, 6000>>, <<6000, 6000, 6000>>}

\* what each module of a map of n modules imports
RiskMaps == {<<0, "none">>, <<2, "next">>, <<MaxHubMods - 1, "none">>,
             <<MaxHubMods - 1, "all">>, <<MaxHubMods, "all">>}

RiskIdle ==
    /\ coverage = <<0, 0, 0>>
    /\ risks_limit = RisksLimit
    /\ rec_limit = RecLimit
    /\ risks = [called |-> FALSE, list |-> <<>>, top_modules |-> <<>>]
    /\ risk_impact = [called |-> FALSE]
    /\ recommendations = [called |-> FALSE]

RiskInit ==
    /\ module_stats \in {Named(rows) : rows \in RiskLists}
    /\ sloc = TotalSloc(module_stats)
    /\ hotspots = NotCalled
    /\ best_documented = NotCalled
    /\ worst_documented = NotCalled
    /\ \E m \in RiskMaps :
        /\ dep_keys = [i \in 1..m[1] |-> i]
        /\ dep_targets = [k \in 1..m[1] |->
                            IF m[2] = "all" THEN (1..m[1]) \ {k}
                            ELSE IF m[2] = "next" THEN {(k % m[1]) + 1} \ {k}
                            ELSE {}]
    /\ dep_limit = CoreLimit
    /\ dep_pc = "idle"
    /\ dep_frame = [in_degree |-> <<>>, out_degree |-> <<>>]
    /\ dep_result = [kind |-> "none"]
    /\ NotesIdle
    /\ coverage \in CoverageTriples
    /\ \E limits \in {<<SmallLimit, SmallLimit>>, <<RisksLimit, RecLimit>>} :
        /\ risks_limit = limits[1]
        /\ rec_limit = limits[2]
    /\ risks = [called |-> FALSE, list |-> <<>>, top_modules |-> <<>>]
    /\ risk_impact = [called |-> FALSE]
    /\ recommendations = [called |-> FALSE]

\* generate_report lines 102-110, after lines 66, 74 and 97
CallRisks ==
    /\ hotspots.called /\ complexity_notes.called /\ dep_pc = "returned"
    /\ ~risks.called
    /\ risks' = _risks(sloc, coverage, module_stats, hotspots.list, dep_result, risks_limit)
    /\ UNCHANGED <<coverage, risks_limit, rec_limit, risk_impact, recommendations>>
    /\ UNCHANGED <<execVars, numVars, statVars, depVars, pathVars, strVars, noteVars, aggVars, logVars>>

\* generate_report lines 119-126
CallRecommendations ==
    /\ risks.called
    /\ ~recommendations.called
    /\ recommendations' =
         [called |-> TRUE] @@ _recommendations(coverage, module_stats, hotspots.list,
                                               dep_result, rec_limit)
    /\ UNCHANGED <<coverage, risks_limit, rec_limit, risks, risk_impact>>
    /\ UNCHANGED <<execVars, numVars, statVars, depVars, pathVars, strVars, noteVars, aggVars, logVars>>

-----------------------------------------------------------------------------
(* generators/report.py: _risk_impact *)

\* thresholds of _risk_impact
LowDocImpact == 40
UnevenDocImpact == 60
SeveralHotspots == 3
SeveralCore == 3
HighSloc == 20000
MediumSloc == 5000

\* one canned sentence: the signal it speaks about and the tier it was chosen for
Sentence(signal, tier) == [signal |-> signal, tier |-> tier]

\* the ladder avg_doc < 40 / < 60 / else with the first threshold at 30
DocTier_LowAtThirty(avg_doc) ==
    IF AvgBelow(avg_doc, 30) THEN "low"
    ELSE IF AvgBelow(avg_doc, UnevenDocImpact) THEN "uneven"
    ELSE "reasonable"

\* lines 620-633 (and 666-677, 737-748): avg_doc < 40 / < 60 / else
DocTier(avg_doc) ==
    IF AvgBelow(avg_doc, LowDocImpact) THEN "low"
    ELSE IF AvgBelow(avg_doc, UnevenDocImpact) THEN "uneven"
    ELSE "reasonable"

\* lines 635-647: hot_n >= 3 / == 0 / else
HotTierMaintainability(hot_n) ==
    IF hot_n >= SeveralHotspots THEN "several"
    ELSE IF hot_n = 0 THEN "none"
    ELSE "some"

\* lines 724-735: hot_n >= 3 / > 0 / else
HotTierEvolution(hot_n) ==
    IF hot_n >= SeveralHotspots THEN "several"
    ELSE IF hot_n > 0 THEN "some"
    ELSE "none"

\* lines 649-661: sloc >= 20000 / >= 5000 / else
SizeTier(total) ==
    IF total >= HighSloc THEN "high"
    ELSE IF total >= MediumSloc THEN "medium"
    ELSE "small"

\* lines 680-692: core_n >= 3 / == 0 / else
CoreTierOnboarding(core_n) ==
    IF core_n >= SeveralCore THEN "several"
    ELSE IF core_n = 0 THEN "none"
    ELSE "some"

\* lines 710-722: core_n >= 3 / > 0 / else
CoreTierEvolution(core_n) ==
    IF core_n >= SeveralCore THEN "several"
    ELSE IF core_n > 0 THEN "some"
    ELSE "none"

\* lines 694-705: avg_deps >= 5 / >= 2 / else
DepsTier(avg_deps) ==
    IF avg_deps.h >= HighDeps * Hundred THEN "high"
    ELSE IF avg_deps.h >= ModerateDeps * Hundred THEN "moderate"
    ELSE "low"

\* lines 707-735 with no sentence when a signal is absent
EvolutionSignals_OnlyPresent(core_n, hot_n) ==
    (IF core_n > 0 THEN <<Sentence("core", CoreTierEvolution(core_n))>> ELSE <<>>)
    \o (IF hot_n > 0 THEN <<Sentence("hotspots", HotTierEvolution(hot_n))>> ELSE <<>>)

\* lines 707-735: the core and the hotspot sentence of the evolution bucket
EvolutionSignals(core_n, hot_n) ==
    <<Sentence("core", CoreTierEvolution(core_n)),
      Sentence("hotspots", HotTierEvolution(hot_n))>>

\* lines 593-754 with the whole onboarding bucket under a test for core modules
_risk_impact_OnboardingNeedsCore(total, percents, hot, deps) ==
    LET avg_doc  == average(percents)
        hot_n    == Len(hot)
        avg_deps == deps.avg_dependencies
        core_n   == Len(deps.core_modules)
    IN  [called |-> TRUE,
         maintainability |->
            <<Sentence("documentation", DocTier(avg_doc)),
              Sentence("hotspots", HotTierMaintainability(hot_n)),
              Sentence("size", SizeTier(total))>>,
         onboarding |->
            IF core_n = 0 THEN <<>>
            ELSE <<Sentence("documentation", DocTier(avg_doc)),
                   Sentence("core", CoreTierOnboarding(core_n)),
                   Sentence("dependencies", DepsTier(avg_deps))>>,
         evolution |->
            EvolutionSignals(core_n, hot_n)
            \o <<Sentence("documentation", DocTier(avg_doc))>>]

\* lines 593-754; `dependencies` is the dict _dependencies returned, which has
\* four keys, so `if dependencies:` holds
_risk_impact(total, percents, hot, deps) ==
    LET avg_doc  == average(percents)
        hot_n    == Len(hot)
        avg_deps == deps.avg_dependencies
        core_n   == Len(deps.core_modules)
    IN  [called |-> TRUE,
         maintainability |->
            <<Sentence("documentation", DocTier(avg_doc)),
              Sentence("hotspots", HotTierMaintainability(hot_n)),
              Sentence("size", SizeTier(total))>>,
         onboarding |->
            <<Sentence("documentation", DocTier(avg_doc)),
              Sentence("core", CoreTierOnboarding(core_n)),
              Sentence("dependencies", DepsTier(avg_deps))>>,
         evolution |->
            EvolutionSignals(core_n, hot_n)
            \o <<Sentence("documentation", DocTier(avg_doc))>>]

\* rows whose sums lie on both sides of the size thresholds of _risk_impact
ImpactRows ==
    {StatRow(s, 0, 0, 0) : s \in {0, 1, MediumSloc - 1, MediumSloc, HighSloc - 1, HighSloc}}

\* coverage percentages around the thresholds 40 and 60 of the average
ImpactTriples ==
    {<<3999, 4000, 4000>>, <<0, 10000, 2000>>, <<5999, 6000, 6000>>, <<6000, 6000, 6000>>}

ImpactInit ==
    /\ module_stats \in {Named(rows) : rows \in SeqsUpTo(ImpactRows, MaxModules)}
    /\ sloc = TotalSloc(module_stats)
    /\ hotspots = NotCalled
    /\ best_documented = NotCalled
    /\ worst_documented = NotCalled
    /\ \E m \in RiskMaps :
        /\ dep_keys = [i \in 1..m[1] |-> i]
        /\ dep_targets = [k \in 1..m[1] |->
                            IF m[2] = "all" THEN (1..m[1]) \ {k}
                            ELSE IF m[2] = "next" THEN {(k % m[1]) + 1} \ {k}
                            ELSE {}]
    /\ dep_limit = CoreLimit
    /\ dep_pc = "idle"
    /\ dep_frame = [in_degree |-> <<>>, out_degree |-> <<>>]
    /\ dep_result = [kind |-> "none"]
    /\ NotesIdle
    /\ coverage \in ImpactTriples
    /\ risks_limit = RisksLimit
    /\ rec_limit = RecLimit
    /\ risks = [called |-> FALSE, list |-> <<>>, top_modules |-> <<>>]
    /\ risk_impact = [called |-> FALSE]
    /\ recommendations = [called |-> FALSE]

\* generate_report lines 111-118, after lines 66 and 74
CallRiskImpact ==
    /\ hotspots.called /\ dep_pc = "returned"
    /\ ~risk_impact.called
    /\ risk_impact' = _risk_impact(sloc, coverage, hotspots.list, dep_result)
    /\ UNCHANGED <<coverage, risks_limit, rec_limit, risks, recommendations>>
    /\ UNCHANGED <<execVars, numVars, statVars, depVars, pathVars, strVars, noteVars, aggVars, logVars>>

\* maps for the architecture bucket: those of RiskMaps, and one in which two
\* modules import each other and the others import nothing
RecMaps == RiskMaps \cup {<<MaxHubMods + 1, "pair">>}

MapTargets(m) ==
    [k \in 1..m[1] |->
        IF m[2] = "all" THEN (1..m[1]) \ {k}
        ELSE IF m[2] = "next" THEN {(k % m[1]) + 1} \ {k}
        ELSE IF m[2] = "pair" /\ k <= 2 THEN {3 - k}
        ELSE {}]

\* the rows of RiskRows, and an empty module without methods
RecRows == RiskRows \cup {StatRow(0, 0, 0, 0)}

RecInit ==
    /\ module_stats \in {Named(rows) : rows \in SeqsUpTo(RecRows, MaxShortRisk)}
    /\ sloc = TotalSloc(module_stats)
    /\ hotspots = NotCalled
    /\ best_documented = NotCalled
    /\ worst_documented = NotCalled
    /\ \E m \in RecMaps :
        /\ dep_keys = [i \in 1..m[1] |-> i]
        /\ dep_targets = MapTargets(m)
    /\ dep_limit = CoreLimit
    /\ dep_pc = "idle"
    /\ dep_frame = [in_degree |-> <<>>, out_degree |-> <<>>]
    /\ dep_result = [kind |-> "none"]
    /\ NotesIdle
    /\ coverage \in CoverageTriples
    /\ \E limits \in {<<SmallLimit, SmallLimit>>, <<RisksLimit, RecLimit>>} :
        /\ risks_limit = limits[1]
        /\ rec_limit = limits[2]
    /\ risks = [called |-> FALSE, list |-> <<>>, top_modules |-> <<>>]
    /\ risk_impact = [called |-> FALSE]
    /\ recommendations = [called |-> FALSE]

-----------------------------------------------------------------------------
(* analyzers/modules.py: analyze_modules *)

MaxAggModules == 3

\* a docstring: None, or a text as a sequence of characters
NoDoc == [type |-> "NoneType"]
DocText(text) == [type |-> "str", text |-> text]
AggDocs == {NoDoc, DocText(<<>>), DocText(<<" ">>), DocText(<<"d">>)}

\* lines 68, 73, 78: `x.doc and x.doc.strip()`
Documented(doc) == doc.type = "str" /\ doc.text # <<>> /\ Strip(doc.text) # <<>>

\* module.metrics: None when the analyzer failed, else a ModuleMetrics
NoMetrics == [type |-> "NoneType"]
AggMetrics ==
    {NoMetrics,
     [type |-> "ModuleMetrics", loc |-> 2, sloc |-> 1, n_classes |-> 1,
      n_methods |-> 1, n_functions |-> 0]}

\* module.classes: per class its doc, and the docs of its methods and attributes
AggClasses ==
    {<<>>,
     <<[doc |-> DocText(<<"d">>), methods |-> <<DocText(<<" ">>)>>,
        attributes |-> <<DocText(<<"d">>)>>]>>,
     <<[doc |-> NoDoc, methods |-> <<DocText(<<"d">>), NoDoc>>, attributes |-> <<>>]>>}

\* the number of documented entries of a list of docs
RECURSIVE CountDocumented(_)
CountDocumented(docs) ==
    IF docs = <<>> THEN 0
    ELSE (IF Documented(Head(docs)) THEN 1 ELSE 0) + CountDocumented(Tail(docs))

\* lines 66-79 for the classes of one module: the six counters it adds
RECURSIVE ClassCounts(_)
ClassCounts(classes) ==
    IF classes = <<>>
    THEN [total_classes |-> 0, documented_classes |-> 0, total_methods |-> 0,
          documented_methods |-> 0, total_attributes |-> 0, documented_attributes |-> 0]
    ELSE LET cls  == Head(classes)
             rest == ClassCounts(Tail(classes))
         IN  [total_classes |-> rest.total_classes + 1,
              documented_classes |->
                  rest.documented_classes + (IF Documented(cls.doc) THEN 1 ELSE 0),
              total_methods |-> rest.total_methods + Len(cls.methods),
              documented_methods |->
                  rest.documented_methods + CountDocumented(cls.methods),
              total_attributes |-> rest.total_attributes + Len(cls.attributes),
              documented_attributes |->
                  rest.documented_attributes + CountDocumented(cls.attributes)]

\* lines 48-79: the loop over the sorted modules from module number i on
RECURSIVE AggregateLoop(_, _, _)
AggregateLoop(sorted, i, acc) ==
    IF i > Len(sorted) THEN acc
    ELSE LET module == sorted[i]
             metrics == module.metrics
         IN  IF metrics.type = "NoneType"
             THEN AggregateLoop(sorted, i + 1, acc)
             ELSE LET c == ClassCounts(module.classes)
                  IN  AggregateLoop(sorted, i + 1,
                        [modules_overview |->
                            Append(acc.modules_overview,
                                   [path |-> PathName(module.path), loc |-> metrics.loc,
                                    sloc |-> metrics.sloc, n_classes |-> metrics.n_classes,
                                    n_methods |-> metrics.n_methods,
                                    n_functions |-> metrics.n_functions]),
                         loc  |-> acc.loc + metrics.loc,
                         sloc |-> acc.sloc + metrics.sloc,
                         total_classes |-> acc.total_classes + c.total_classes,
                         documented_classes |->
                             acc.documented_classes + c.documented_classes,
                         total_methods |-> acc.total_methods + c.total_methods,
                         documented_methods |->
                             acc.documented_methods + c.documented_methods,
                         total_attributes |-> acc.total_attributes + c.total_attributes,
                         documented_attributes |->
                             acc.documented_attributes + c.documented_attributes])

\* line 48: sorted(modules, key=lambda module: module.path); paths are distinct
SortedByPath(mods) ==
    StableSort(mods, [i \in 1..Len(mods) |-> [j \in 1..Len(mods) |->
                         mods[i].path < mods[j].path]])

\* lines 21-107
analyze_modules(mods) ==
    LET acc == AggregateLoop(SortedByPath(mods), 1,
                   [modules_overview |-> <<>>, loc |-> 0, sloc |-> 0,
                    total_classes |-> 0, documented_classes |-> 0,
                    total_methods |-> 0, documented_methods |-> 0,
                    total_attributes |-> 0, documented_attributes |-> 0])
    IN  [called |-> TRUE,
         \* line 83: 'n_files': len(modules)
         global_stats |-> [n_files |-> Len(mods),
                           total_loc |-> acc.loc, total_sloc |-> acc.sloc],
         modules_overview |-> acc.modules_overview,
         doc_coverage |->
            [class_percent |-> percentage(acc.documented_classes, acc.total_classes),
             method_percent |-> percentage(acc.documented_methods, acc.total_methods),
             attribute_percent |->
                 percentage(acc.documented_attributes, acc.total_attributes)],
         counts |-> [total_classes |-> acc.total_classes,
                     total_methods |-> acc.total_methods,
                     total_attributes |-> acc.total_attributes]]

AggIdle ==
    /\ am_modules = <<>>
    /\ am_result = [called |-> FALSE]

\* an unordered collection of modules with distinct paths
AggInit ==
    /\ \E paths \in UNION {Perms(K) : K \in SUBSET (1..MaxAggModules)} :
        am_modules \in {[i \in 1..Len(paths) |->
                            [path |-> paths[i], metrics |-> f[i][1], classes |-> f[i][2]]] :
                        f \in [1..Len(paths) -> AggMetrics \X AggClasses]}
    /\ am_result = [called |-> FALSE]

CallAnalyzeModules ==
    /\ ~am_result.called
    /\ am_result' = analyze_modules(am_modules)
    /\ UNCHANGED am_modules
    /\ UNCHANGED <<execVars, numVars, statVars, depVars, pathVars, strVars, noteVars, riskVars, logVars>>

-----------------------------------------------------------------------------
(* helpers/loggers.py: ManageLogger *)

MaxLogCalls == 5

\* lines 79-118: RotatingFileHandler at level INFO (the default of `level`)
FileHandler == [kind |-> "RotatingFileHandler", level |-> "INFO", closed |-> FALSE]

\* lines 120-133: StreamHandler at level DEBUG
StreamHandler == [kind |-> "StreamHandler", level |-> "DEBUG", closed |-> FALSE]

\* lines 45-59 without the early return of lines 52-53
algorithm_NoGuard(logger) ==
    [handlers  |-> logger.handlers \o <<FileHandler, StreamHandler>>,
     level     |-> "DEBUG",
     propagate |-> FALSE]

\* lines 51-59: the logger after ManageLogger.algorithm, once the folder exists
algorithm(logger) ==
    IF logger.handlers # <<>> THEN logger
    ELSE [handlers  |-> logger.handlers \o <<FileHandler, StreamHandler>>,
          level     |-> "DEBUG",
          propagate |-> FALSE]

\* lines 74-77: every handler of the copied list is closed and removed
RECURSIVE RemoveHandlers(_, _)
RemoveHandlers(handlers, lst_handlers) ==
    IF lst_handlers = <<>> THEN handlers
    ELSE RemoveHandlers(SelectSeq(handlers, LAMBDA h : h # Head(lst_handlers)),
                        Tail(lst_handlers))

close_logger(logger) ==
    [logger EXCEPT !.handlers = RemoveHandlers(logger.handlers, logger.handlers)]

\* a logger nobody has configured: no handler, level NOTSET, propagate True
LogIdle ==
    /\ log_handlers = <<>>
    /\ log_level = "NOTSET"
    /\ log_propagate = TRUE
    /\ log_calls = <<>>

Logger == [handlers |-> log_handlers, level |-> log_level, propagate |-> log_propagate]

\* ManageLogger.algorithm(settings); os.makedirs (line 47) creates the folder or
\* raises before the logger is looked at
CallAlgorithm ==
    /\ Len(log_calls) < MaxLogCalls
    /\ \E made \in BOOLEAN :
        \E r \in {IF made THEN algorithm(Logger) ELSE Logger} :
            /\ log_handlers' = r.handlers
            /\ log_level' = r.level
            /\ log_propagate' = r.propagate
            /\ log_calls' = Append(log_calls, IF made THEN "algorithm" ELSE "OSError")
    /\ UNCHANGED <<execVars, numVars, statVars, depVars, pathVars, strVars, noteVars,
                   riskVars, aggVars>>

\* ManageLogger.close_logger(logger)
CallCloseLogger ==
    /\ Len(log_calls) < MaxLogCalls
    /\ \E r \in {close_logger(Logger)} :
        /\ log_handlers' = r.handlers
        /\ log_level' = r.level
        /\ log_propagate' = r.propagate
    /\ log_calls' = Append(log_calls, "close_logger")
    /\ UNCHANGED <<execVars, numVars, statVars, depVars, pathVars, strVars, noteVars,
                   riskVars, aggVars>>

MoreIdle == PathIdle /\ StrIdle /\ NotesIdle /\ RiskIdle /\ AggIdle /\ LogIdle

-----------------------------------------------------------------------------
(* Specifications *)

\* execute over a scanned repository
InitExec == ExecInit /\ NumIdle /\ StatIdle /\ DepIdle /\ MoreIdle
NextExec == Scan \/ AnalyzeFile \/ GenerateReadme \/ GenerateHtml
SpecExec == InitExec /\ [][NextExec]_vars

\* the numeric utilities on bounded arguments
InitNum == ExecIdle /\ NumInit /\ StatIdle /\ DepIdle /\ MoreIdle
NextNum == CallPercentage \/ CallAverage
SpecNum == InitNum /\ [][NextNum]_vars

\* _hotspots on bounded module statistics
InitHot == ExecIdle /\ NumIdle /\ StatInit(HotRows) /\ DepIdle /\ MoreIdle
NextHot == CallHotspots
SpecHot == InitHot /\ [][NextHot]_vars

\* the best and worst documented lists on bounded module statistics
InitDoc == ExecIdle /\ NumIdle /\ StatInit(DocRows) /\ DepIdle /\ MoreIdle
NextDoc == CallBestDocumented \/ CallWorstDocumented
SpecDoc == InitDoc /\ [][NextDoc]_vars

\* _dependencies on bounded dependency maps
InitDep == ExecIdle /\ NumIdle /\ StatIdle /\ DepInit /\ MoreIdle
NextDep == CallDependencies
SpecDep == InitDep /\ [][NextDep]_vars

\* _dependencies on maps with modules of many dependencies
InitHub == ExecIdle /\ NumIdle /\ StatIdle /\ HubInit /\ MoreIdle
NextHub == CallDependencies
SpecHub == InitHub /\ [][NextHub]_vars

\* _complexity_notes on bounded module statistics
InitNotes == LogIdle /\ AggIdle /\ ExecIdle /\ NumIdle /\ DepIdle /\ PathIdle /\ StrIdle /\ RiskIdle /\ NotesInit
NextNotes == CallComplexityNotes
SpecNotes == InitNotes /\ [][NextNotes]_vars

\* _paths on bounded module collections
InitPaths == LogIdle /\ AggIdle /\ ExecIdle /\ NumIdle /\ StatIdle /\ DepIdle /\ PathInit /\ StrIdle /\ NotesIdle /\ RiskIdle
NextPaths == CallPaths
SpecPaths == InitPaths /\ [][NextPaths]_vars

\* DocStrings.to_readme and DocStrings.to_html on bounded texts
InitStr == LogIdle /\ AggIdle /\ ExecIdle /\ NumIdle /\ StatIdle /\ DepIdle /\ PathIdle /\ StrInit /\ NotesIdle /\ RiskIdle
NextStr == CallToReadme \/ CallToHtml
SpecStr == InitStr /\ [][NextStr]_vars

\* generate_report from the statistics on: hotspots, dependency summary,
\* complexity notes, risks, recommendations
InitRisk == LogIdle /\ AggIdle /\ ExecIdle /\ NumIdle /\ PathIdle /\ StrIdle /\ RiskInit
NextRisk ==
    \/ CallHotspots
    \/ CallDependencies
    \/ CallComplexityNotes
    \/ CallRisks
    \/ CallRiskImpact
    \/ CallRecommendations
SpecRisk == InitRisk /\ [][NextRisk]_vars

InitAgg == LogIdle /\ ExecIdle /\ NumIdle /\ StatIdle /\ DepIdle /\ PathIdle /\ StrIdle /\ NotesIdle
              /\ RiskIdle /\ AggInit
NextAgg == CallAnalyzeModules
SpecAgg == InitAgg /\ [][NextAgg]_vars

\* main.py: any sequence of calls of ManageLogger on the algorithm logger
InitLog == ExecIdle /\ NumIdle /\ StatIdle /\ DepIdle /\ MoreIdle
NextLog == CallAlgorithm \/ CallCloseLogger
SpecLog == InitLog /\ [][NextLog]_vars

\* generate_report on short statistics lists and more dependency maps
InitRec == LogIdle /\ AggIdle /\ ExecIdle /\ NumIdle /\ PathIdle /\ StrIdle /\ RecInit
NextRec == NextRisk
SpecRec == InitRec /\ [][NextRec]_vars

\* generate_report up to the risk-impact narrative
InitImpact == LogIdle /\ AggIdle /\ ExecIdle /\ NumIdle /\ PathIdle /\ StrIdle /\ ImpactInit
NextImpact == CallHotspots \/ CallDependencies \/ CallRiskImpact
SpecImpact == InitImpact /\ [][NextImpact]_vars

-----------------------------------------------------------------------------
(* Claims about execute *)

FailedSoFar == {i \in 1..file_idx : AnalysisRaises(i)}

\* C1: with an analyzer registered, whenever analysing a file raises, the
\* exception is caught and logged, the file adds no module, and the run goes on:
\* it is never aborted, and when it is done every file has been taken and both
\* outputs have been written.
C1_PerFileFailureRecovered ==
    registered =>
        /\ \A i \in FailedSoFar :
            /\ exec_pc # "aborted"
            /\ exec_exc = "none"
            /\ \E k \in 1..Len(exec_log) : exec_log[k] = [level |-> "error", what |-> i]
            /\ i \notin Range(modules)
        /\ exec_pc = "done" => file_idx = Len(files) /\ outputs = {"README", "HTML"}

\* C12: with no analyzer registered for the framework, execute fails fast: once
\* it is past the lookup it has stopped with an unsupported-framework error, no
\* file has been taken by the per-file loop (and its handler) and no output has
\* been generated, whatever the number of scanned files.
C12_UnregisteredFrameworkFailsFast ==
    (~registered /\ exec_pc \notin {"idle", "start"}) =>
        /\ exec_pc = "aborted"
        /\ exec_exc = "UnsupportedFramework"
        /\ file_idx = 0
        /\ outputs = {}

-----------------------------------------------------------------------------
(* Claims about _paths *)

\* C11: for a framework other than the supported ones, and any module
\* collection, empty or not, _paths raises an error that names the framework;
\* it never returns an identity map.
C11_UnsupportedFrameworkRaises ==
    (pth_result.kind # "none" /\ pth_framework \notin {"csharp", "python"}) =>
        /\ pth_result.kind = "raise"
        /\ pth_result.names = pth_framework

-----------------------------------------------------------------------------
(* Claims about _complexity_notes *)

NotesRan == complexity_notes.called /\ sloc # 0 /\ module_stats # <<>>

HasNote(kind) == \E i \in 1..Len(complexity_notes.list) : complexity_notes.list[i].kind = kind

\* the combined sloc of the k largest modules
LargestSum(k) ==
    LET sums == {SetSum(S, [i \in S |-> module_stats[i].sloc]) :
                    S \in {T \in SUBSET (1..Len(module_stats)) : Cardinality(T) = k}}
    IN  CHOOSE s \in sums : \A o \in sums : o <= s

\* a share of the total sloc, as a percentage in hundredths
ShareOfTotal(part) == RoundHalfEven(part * Hundred * Hundred, sloc)

GroupSum == SeqSum([i \in 1..Len(complexity_notes.top_modules) |->
                       complexity_notes.top_modules[i].sloc])

CeilFifth(n) == IF n % 5 = 0 THEN n \div 5 ELSE (n \div 5) + 1

\* C17: the concentration group is the top ceil(20% of the module count) modules
\* by sloc, at least 1, and with the default limit the concentration note is
\* there exactly when the group holds >= 50% of the total sloc.
C17_ConcentrationGroupCeil ==
    (NotesRan /\ notes_limit = NotesLimit) =>
        \E k \in {Max(1, CeilFifth(Len(module_stats)))} :
            /\ Len(complexity_notes.top_modules) = k
            /\ GroupSum = LargestSum(k)
            /\ HasNote("concentration")
                 <=> (ShareOfTotal(LargestSum(k)) >= ConcentrationNotePercent * Hundred)

\* C17, as the code has it: the group is the top floor(20% of the module count)
\* modules by sloc, at least 1.
C17_ConcentrationGroupFloor ==
    (NotesRan /\ notes_limit = NotesLimit) =>
        \E k \in {Max(1, Len(module_stats) \div 5)} :
            /\ Len(complexity_notes.top_modules) = k
            /\ GroupSum = LargestSum(k)
            /\ HasNote("concentration")
                 <=> (ShareOfTotal(LargestSum(k)) >= ConcentrationNotePercent * Hundred)

\* six modules: the group is one module, which holds less than half of the sloc
\* while the two largest together hold more, and there is no concentration note
C17_Witness ==
    /\ NotesRan /\ notes_limit = NotesLimit
    /\ Len(module_stats) = 6
    /\ Len(complexity_notes.top_modules) = 1
    /\ ShareOfTotal(LargestSum(2)) >= ConcentrationNotePercent * Hundred
    /\ ~HasNote("concentration")

NoteKinds == [i \in 1..Len(complexity_notes.list) |-> complexity_notes.list[i].kind]

SomeModule(field, least) ==
    \E i \in 1..Len(module_stats) : module_stats[i][field] >= least

\* the notes whose conditions hold, in the fixed order; the concentration note
\* is due when the group of the largest modules holds >= 50% of the sloc
NotesDue(many_methods_due) ==
    (IF SomeModule("sloc", 1) THEN <<"averages">> ELSE <<>>)
    \o (IF SomeModule("sloc", LargeSloc) THEN <<"large">> ELSE <<>>)
    \o (IF sloc # 0 /\ ShareOfTotal(LargestSum(Max(1, Len(module_stats) \div 5)))
                          >= ConcentrationNotePercent * Hundred
        THEN <<"concentration">> ELSE <<>>)
    \o (IF many_methods_due THEN <<"many_methods">> ELSE <<>>)

\* C18: the returned list is the averages note (when some module has sloc), the
\* large-module note (when some module has sloc >= 1000), the concentration note
\* and the many-methods note (when some module has method count >= 30), in this
\* order, cut to `limit`; with the default limit a module with method count >= 30
\* always gives the many-methods note.
C18_NotesInFixedOrder ==
    complexity_notes.called =>
        /\ NoteKinds = Take(NotesDue(SomeModule("n_methods", ManyMethods)), notes_limit)
        /\ (notes_limit = NotesLimit /\ SomeModule("n_methods", ManyMethods))
              => HasNote("many_methods")

\* C18, as the code has it: the many-methods note, like every note, needs a
\* non-zero total sloc; with a total sloc of zero the list is empty.
C18_NotesInFixedOrderWithSloc ==
    complexity_notes.called =>
        /\ NoteKinds = Take(NotesDue(sloc # 0 /\ SomeModule("n_methods", ManyMethods)),
                            notes_limit)
        /\ (notes_limit = NotesLimit /\ sloc # 0 /\ SomeModule("n_methods", ManyMethods))
              => HasNote("many_methods")
        /\ sloc = 0 => complexity_notes.list = <<>>

\* all four notes, in order, and a list that the small limit has cut
C18_Witness ==
    /\ complexity_notes.called
    /\ \/ NoteKinds = <<"averages", "large", "concentration", "many_methods">>
       \/ /\ notes_limit = SmallLimit
          /\ NoteKinds = <<"averages", "large">>
          /\ SomeModule("n_methods", ManyMethods)

-----------------------------------------------------------------------------
(* Claims about DocStrings *)

Occurs(token, text) ==
    \E i \in 1..(Len(text) - Len(token) + 1) : SubSeq(text, i, i + Len(token) - 1) = token

\* C15: to_readme and to_html raise ValueError when `cleaned` is None or an empty
\* list, raise TypeError for every value of `cleaned` that is not a list, and with
\* a non-empty list return a text in which no listed token occurs.
C15_CleanedContract ==
    (str_op \in {"to_readme", "to_html"}) =>
        /\ (str_cleaned.type = "NoneType" \/ str_cleaned = [type |-> "list", items |-> <<>>])
              => (str_result.kind = "raise" /\ str_result.exc = "ValueError")
        /\ (str_cleaned.type \notin {"NoneType", "list"})
              => (str_result.kind = "raise" /\ str_result.exc = "TypeError")
        /\ (str_cleaned.type = "list" /\ str_cleaned.items # <<>>)
              => /\ str_result.kind = "return"
                 /\ \A k \in 1..Len(str_cleaned.items) :
                        ~Occurs(str_cleaned.items[k], str_result.text)

-----------------------------------------------------------------------------
(* Claims about _dependencies *)

\* The graph of a DependencyMap, from its definition: the universe is every key
\* and every referenced target; out-degree is the size of the out-set (0 for a
\* module that is no key); in-degree counts the keys whose out-set holds m.
Universe == Range(dep_keys) \cup UNION {dep_targets[k] : k \in Range(dep_keys)}
OutDeg(m) == IF m \in Range(dep_keys) THEN Cardinality(dep_targets[m]) ELSE 0
InDeg(m)  == Cardinality({k \in Range(dep_keys) : m \in dep_targets[k]})
EdgeCount == SetSum(Range(dep_keys), [k \in Range(dep_keys) |-> Cardinality(dep_targets[k])])
SinkOnly  == Universe \ Range(dep_keys)

TableSum(table) == SetSum(Universe, [m \in Universe |-> Get(table, m)])

\* C2: for any DependencyMap given to _dependencies, the degree tables it builds
\* over the full universe (keys and referenced targets) have equal sums, both
\* equal to the number of edges.
C2_DegreeSumsEqualEdges ==
    dep_pc # "idle" =>
        /\ dep_result.kind = "return"
        /\ TableSum(dep_frame.out_degree) = EdgeCount
        /\ TableSum(dep_frame.in_degree) = EdgeCount

\* C3: called with a map that references a module that is no key, _dependencies
\* completes, has added every such module to the map with an empty out-set, and
\* its in-degree and out-degree tables are defined on exactly keys and targets.
C3_SinkOnlyTargetAdded ==
    [][(CallDependencies /\ SinkOnly # {}) =>
        (/\ dep_result'.kind = "return"
         /\ \A m \in SinkOnly : m \in Range(dep_keys') /\ dep_targets'[m] = {}
         /\ DOMAIN dep_frame'.in_degree = Universe
         /\ DOMAIN dep_frame'.out_degree = Universe)]_vars

\* C14: an Insight Engine operation leaves its inputs as they were: across every
\* call the module statistics list keeps its rows and their order, and the
\* DependencyMap keeps its keys and its out-sets.
C14_InputsUnchanged ==
    [][/\ module_stats' = module_stats
       /\ sloc' = sloc
       /\ Range(dep_keys') = Range(dep_keys)
       /\ \A k \in Range(dep_keys) : dep_targets'[k] = dep_targets[k]]_vars

\* the number of modules of the universe with out-degree >= 5
DenseCount == Cardinality({m \in Universe : OutDeg(m) >= DenseOut})

\* C16: the density sentence says "interconnected" exactly when the number of
\* modules with out-degree >= 5 is at least 20% of the size of the universe,
\* whatever that size.
C16_DenseAtTwentyPercent ==
    (dep_pc = "returned" /\ dep_keys # <<>>) =>
        (dep_result.summary.dense <=> (DenseCount * 5 >= Cardinality(Universe)))

\* C16, as the code has it: "interconnected" exactly when that number is at least
\* the whole part of 20% of the size of the universe, and at least 1.
C16_DenseAtFlooredTwentyPercent ==
    (dep_pc = "returned" /\ dep_keys # <<>>) =>
        (dep_result.summary.dense <=>
            (DenseCount >= 1 /\ DenseCount >= Cardinality(Universe) \div 5))

\* six modules, one of them with five dependencies: 1 is less than 20% of 6
C16_Witness ==
    /\ dep_pc = "returned"
    /\ Cardinality(Universe) % 5 # 0
    /\ DenseCount = 1
    /\ DenseCount * 5 < Cardinality(Universe)
    /\ dep_result.summary.dense

\* the degrees of every module of the universe, as (in + out, in, out); the
\* claims below bind it once per state (\E deg \in {DegTuples})
DegTuples == [m \in Universe |-> <<InDeg(m) + OutDeg(m), InDeg(m), OutDeg(m)>>]

\* C4: when _dependencies returns, the modules it counts as independent are
\* modules of the universe, and are exactly those with in-degree 0 and out-degree
\* 0; a module with in-degree 0 and out-degree > 0 is not counted.
C4_IndependentExactlyIsolated ==
    (dep_pc = "returned") =>
        \E deg \in {DegTuples} :
        LET isolated == {m \in Universe : deg[m][2] = 0 /\ deg[m][3] = 0}
        IN  /\ dep_result.independent_modules = Cardinality(isolated)
            /\ dep_keys # <<>> =>
                /\ Range(dep_frame.independent) \subseteq Universe
                /\ Range(dep_frame.independent) = isolated
                /\ \A m \in Universe :
                     (deg[m][2] = 0 /\ deg[m][3] > 0) => m \notin Range(dep_frame.independent)

C4_Witness ==
    /\ dep_pc = "returned"
    /\ \E m \in Universe : InDeg(m) = 0 /\ OutDeg(m) = 0
    /\ \E m \in Universe : InDeg(m) = 0 /\ OutDeg(m) > 0

TupleGreater(a, b) ==
    \/ a[1] > b[1]
    \/ (a[1] = b[1] /\ a[2] > b[2])
    \/ (a[1] = b[1] /\ a[2] = b[2] /\ a[3] > b[3])

\* C5: the core-module list returned by _dependencies names the first `limit`
\* modules of the universe ranked by (in + out, in, out) descending, modules of
\* combined degree 0 left out; equal tuples are ordered by path, so the list
\* depends on the map alone and not on the order of its keys: its i-th entry
\* names the connected module that exactly i - 1 modules rank before.
C5_CoreModulesRanked ==
    (dep_pc = "returned") =>
        \E deg \in {DegTuples} :
        LET connected == {m \in Universe : deg[m][1] > 0}
            before(m, n) == \/ TupleGreater(deg[m], deg[n])
                            \/ (deg[m] = deg[n] /\ m < n)
            place(m)  == Cardinality({n \in connected : before(n, m)}) + 1
            core      == dep_result.core_modules
        IN  /\ Len(core) = (IF dep_limit < Cardinality(connected)
                            THEN dep_limit ELSE Cardinality(connected))
            /\ \A i \in 1..Len(core) :
                 \E m \in connected : place(m) = i /\ core[i] = PathName(m)

\* the map {A: {B}, B: {}} gives B then A, with its keys inserted in either order
C5_Witness ==
    /\ dep_pc = "returned"
    /\ Range(dep_keys) = {1, 2}
    /\ dep_keys = <<2, 1>>
    /\ dep_targets[1] = {2}
    /\ dep_targets[2] = {}
    /\ dep_result.core_modules = <<PathName(2), PathName(1)>>

-----------------------------------------------------------------------------
(* Claims about _hotspots *)

\* the share of total sloc of row i of module_stats, and of its documented items
SlocPercent(i) == percentage(module_stats[i].sloc, sloc)
DocPercent(i)  == percentage(module_stats[i].documented_items, module_stats[i].total_items)

\* the reasons of the claim, as a set
SizeReason(i) ==
    IF SlocPercent(i).h >= 2000 THEN {"very large"}
    ELSE IF SlocPercent(i).h >= 1000 THEN {"relevant by size"}
    ELSE {}
ClaimedReasons(i) ==
    SizeReason(i)
    \cup (IF module_stats[i].n_methods >= 15 THEN {"many methods"} ELSE {})
    \cup (IF module_stats[i].total_items > 0 /\ DocPercent(i).h <= 5000
          THEN {"low documentation coverage"} ELSE {})
ClaimedHotspots ==
    {i \in 1..Len(module_stats) : module_stats[i].sloc # 0 /\ ClaimedReasons(i) # {}}

\* C6: the hotspot list holds exactly the modules with non-zero sloc that trigger
\* a reason, each once and with exactly its reasons: at most one size reason,
\* "many methods" from 15 methods, "low documentation coverage" for documentable
\* items documented to 50% or less; every listed hotspot has a reason.
C6_HotspotsExactlyTriggered ==
    hotspots.called =>
        LET h == hotspots.list IN
        /\ {h[k].name : k \in 1..Len(h)} = ClaimedHotspots
        /\ Len(h) = Cardinality(ClaimedHotspots)
        /\ \A k \in 1..Len(h) :
            /\ module_stats[h[k].name].sloc # 0
            /\ h[k].comment # <<>>
            /\ Range(h[k].comment) = ClaimedReasons(h[k].name)
            /\ Len(h[k].comment) = Cardinality(ClaimedReasons(h[k].name))
            /\ ~({"very large", "relevant by size"} \subseteq Range(h[k].comment))

C6_Witness ==
    /\ hotspots.called
    /\ \E k \in 1..Len(hotspots.list) : Len(hotspots.list[k].comment) = 3
    /\ \E k \in 1..Len(hotspots.list) : Len(hotspots.list[k].comment) = 1
    /\ \E i \in 1..Len(module_stats) : module_stats[i].sloc # 0 /\ i \notin ClaimedHotspots

\* C7: the hotspots are ordered by (sloc_percent, sloc) descending with
\* sloc_percent compared as a number: a hotspot with a larger share of total sloc
\* precedes one with a smaller share.
C7_HotspotsByShareDescending ==
    hotspots.called =>
        LET h == hotspots.list IN
        \A i, j \in 1..Len(h) :
            i < j =>
                \/ SlocPercent(h[i].name).h > SlocPercent(h[j].name).h
                \/ /\ SlocPercent(h[i].name).h = SlocPercent(h[j].name).h
                   /\ h[i].sloc >= h[j].sloc

-----------------------------------------------------------------------------
(* Claims about the best and worst documented lists *)

DocCandidateNames == {i \in 1..Len(module_stats) : module_stats[i].total_items # 0}
Names(list) == [k \in 1..Len(list) |-> list[k].name]
Percents(list) == [k \in 1..Len(list) |-> list[k].percent.h]
BothListed == best_documented.called /\ worst_documented.called
Untruncated == Cardinality(DocCandidateNames) <= BestLimit /\ Cardinality(DocCandidateNames) <= WorstLimit
SomeTie == \E i, j \in DocCandidateNames : i # j /\ DocPercent(i).h = DocPercent(j).h
TiesInInputOrder(list) ==
    \A i, j \in 1..Len(list) :
        (i < j /\ list[i].percent.h = list[j].percent.h) => list[i].name < list[j].name

\* C8 as stated: before truncation the best list is exactly the reverse of the
\* worst list, also when several modules have the same documentation percentage.
C8_BestIsReverseOfWorst ==
    (BothListed /\ Untruncated) => best_documented.list = Reverse(worst_documented.list)

\* C8 as amended: both lists are built over the modules with a documentable item;
\* before truncation the percentages of the best list are those of the worst list
\* reversed, modules with the same percentage keep the order of module_stats in
\* both lists, and the best list is exactly the reverse of the worst list when no
\* two candidates have the same percentage.
C8_BestReversesWorstUpToTies ==
    (BothListed /\ Untruncated) =>
        /\ Range(Names(best_documented.list)) = DocCandidateNames
        /\ Range(Names(worst_documented.list)) = DocCandidateNames
        /\ Len(best_documented.list) = Cardinality(DocCandidateNames)
        /\ Len(worst_documented.list) = Cardinality(DocCandidateNames)
        /\ Percents(best_documented.list) = Reverse(Percents(worst_documented.list))
        /\ \A k \in 1..Len(best_documented.list) :
             best_documented.list[k].percent = DocPercent(best_documented.list[k].name)
        /\ TiesInInputOrder(best_documented.list)
        /\ TiesInInputOrder(worst_documented.list)
        /\ ~SomeTie => best_documented.list = Reverse(worst_documented.list)

C8_Witness ==
    /\ BothListed
    /\ Untruncated
    /\ SomeTie
    /\ Len(best_documented.list) >= 3
    /\ best_documented.list[1].percent.h > worst_documented.list[1].percent.h
    /\ best_documented.list # Reverse(worst_documented.list)

-----------------------------------------------------------------------------
(* Claims about tools/nums.py *)

\* C9: percentage(p, 0) is 0 for every p and raises nothing; percentage(0, t) is 0
\* and percentage(t, t) is 100 for every t > 0.
C9_PercentageEdges ==
    (num_op = "percentage") =>
        /\ num_result.kind \in {"int", "float"}
        /\ num_total = 0 => num_result.h = 0
        /\ (num_part = 0 /\ num_total > 0) => num_result.h = 0
        /\ (num_part = num_total /\ num_total > 0) => num_result = [kind |-> "int", h |-> 10000]

C9_Witness ==
    /\ num_op = "percentage"
    /\ num_total = 0
    /\ num_part # 0
    /\ num_result.h = 0

\* C10: average of an empty list fails with EmptyInputError: it returns no
\* number, and the failure is not a division by zero.
C10_EmptyAverageIsEmptyInputError ==
    (num_op = "average" /\ num_elements = <<>>) =>
        /\ num_result.kind = "raise"
        /\ num_result.exc = "EmptyInputError"

-----------------------------------------------------------------------------
(* Claims about _risks and _recommendations *)

HasRisk(kind) == \E i \in 1..Len(risks.list) : risks.list[i].kind = kind

\* C13: with an empty per-module statistics list _hotspots returns an empty list,
\* _risks returns the single "could not be calculated" message, and
\* _recommendations returns empty refactor and docs buckets and an architecture
\* bucket holding the single "not enough module statistics" message.
C13_EmptyStatisticsShortCircuit ==
    module_stats = <<>> =>
        /\ hotspots.called => hotspots.list = <<>>
        /\ risks.called => risks.list = <<[kind |-> "not_calculable"]>>
        /\ recommendations.called =>
            /\ recommendations.refactor = <<>>
            /\ recommendations.docs = <<>>
            /\ recommendations.architecture = <<[kind |-> "not_enough_statistics"]>>

\* the three operations have run on an empty list, with a coverage and a
\* dependency summary that would otherwise give recommendations
C13_Witness ==
    /\ module_stats = <<>>
    /\ hotspots.called /\ risks.called /\ recommendations.called
    /\ coverage # <<0, 0, 0>>
    /\ dep_result.core_modules # <<>>

CoverageSum == coverage[1] + coverage[2] + coverage[3]

\* C19: with non-empty statistics the low-documentation risk is there exactly
\* when the average of the three coverage percentages is < 35, the
\* moderate-documentation risk exactly when it is >= 35 and < 55, neither when it
\* is >= 55, and never both.
C19_DocumentationRiskLadder ==
    (risks.called /\ module_stats # <<>>) =>
        /\ HasRisk("low_documentation") <=> CoverageSum < 3 * LowDocRisk * Hundred
        /\ HasRisk("moderate_documentation")
             <=> /\ CoverageSum >= 3 * LowDocRisk * Hundred
                 /\ CoverageSum < 3 * ModerateDocRisk * Hundred
        /\ ~(HasRisk("low_documentation") /\ HasRisk("moderate_documentation"))

\* three different percentages whose average is exactly 35: the moderate risk
C19_Witness ==
    /\ risks.called /\ module_stats # <<>>
    /\ CoverageSum = 3 * LowDocRisk * Hundred
    /\ coverage[1] # coverage[2]
    /\ HasRisk("moderate_documentation")

\* C20: with non-empty statistics the concentration risk is there exactly when
\* the group of the top 20% of the modules by sloc holds >= 60% of the total
\* sloc; the percentage and the count in its text are the share and the size of
\* that group; and the group is the one the concentration note uses.
C20_ConcentrationRisk ==
    (risks.called /\ module_stats # <<>>) =>
        \E k \in {Max(1, Len(module_stats) \div 5)} :
            /\ HasRisk("concentration")
                 <=> /\ sloc # 0
                     /\ ShareOfTotal(LargestSum(k)) >= ConcentrationRiskPercent * Hundred
            /\ \A i \in 1..Len(risks.list) :
                 risks.list[i].kind = "concentration" =>
                    /\ risks.list[i].percent.h = ShareOfTotal(LargestSum(k))
                    /\ risks.list[i].top_count = k
                    /\ Len(risks.top_modules) = k
            /\ risks.top_modules = complexity_notes.top_modules

\* a group of two modules out of ten or more that holds >= 60% but not all of
\* the sloc, the same two modules as in the complexity notes
C20_Witness ==
    /\ risks.called
    /\ \E i \in 1..Len(risks.list) :
        /\ risks.list[i].kind = "concentration"
        /\ risks.list[i].top_count = 2
        /\ risks.list[i].percent.h < Hundred * Hundred
    /\ Len(complexity_notes.top_modules) = 2
    /\ risks.top_modules = complexity_notes.top_modules

RiskKinds == [i \in 1..Len(risks.list) |-> risks.list[i].kind]

\* the risks whose conditions hold, in the fixed order
RisksDue ==
    (IF CoverageSum < 3 * LowDocRisk * Hundred THEN <<"low_documentation">>
     ELSE IF CoverageSum < 3 * ModerateDocRisk * Hundred THEN <<"moderate_documentation">>
     ELSE <<>>)
    \o (IF sloc # 0 /\ ShareOfTotal(LargestSum(Max(1, Len(module_stats) \div 5)))
                          >= ConcentrationRiskPercent * Hundred
        THEN <<"concentration">> ELSE <<>>)
    \o (IF SomeModule("sloc", VeryLargeSloc) THEN <<"very_large_modules">> ELSE <<>>)
    \o (IF SomeModule("n_methods", TooManyMethods) THEN <<"high_complexity">> ELSE <<>>)
    \o (IF hotspots.list # <<>> THEN <<"hotspots_detected">> ELSE <<>>)
    \o (IF dep_result.core_modules # <<>> THEN <<"concentrated_dependencies">> ELSE <<>>)

\* C21: with non-empty statistics the list returned by _risks is the documentation
\* risk, the concentration risk, the very-large-modules risk, the high-complexity
\* risk, the hotspots-detected risk and the concentrated-dependencies risk, each
\* exactly when its condition holds, in this order, cut to the first `limit`.
C21_RisksInFixedOrder ==
    (risks.called /\ module_stats # <<>>) =>
        /\ RiskKinds = Take(RisksDue, risks_limit)
        /\ risks_limit = RisksLimit => RiskKinds = RisksDue

\* all six risks are due and the default limit keeps them all
C21_Witness ==
    /\ risks.called
    /\ risks_limit = RisksLimit
    /\ Len(RisksDue) = 6
    /\ RiskKinds = RisksDue

-----------------------------------------------------------------------------
(* Claims about _risk_impact *)

\* C22: for every total sloc, coverage, hotspot list and dependency summary each
\* of the three buckets of _risk_impact is non-empty.
C22_ImpactBucketsNonEmpty ==
    risk_impact.called =>
        /\ risk_impact.maintainability # <<>>
        /\ risk_impact.onboarding # <<>>
        /\ risk_impact.evolution # <<>>

\* no module, no hotspot, no core module: every bucket still has three sentences
C22_Witness ==
    /\ risk_impact.called
    /\ module_stats = <<>> /\ hotspots.list = <<>> /\ dep_result.core_modules = <<>>
    /\ Len(risk_impact.maintainability) = 3
    /\ Len(risk_impact.onboarding) = 3
    /\ Len(risk_impact.evolution) = 3

SignalsOf(bucket) == [i \in 1..Len(bucket) |-> bucket[i].signal]

\* the number of sentences of a bucket that speak about a signal
CountOf(bucket, signal) ==
    Cardinality({i \in 1..Len(bucket) : bucket[i].signal = signal})

\* the tier the ladders of the claim give each signal
TierDue(signal) ==
    IF signal = "documentation"
    THEN (IF CoverageSum < 3 * LowDocImpact * Hundred THEN "low"
          ELSE IF CoverageSum < 3 * UnevenDocImpact * Hundred THEN "uneven"
          ELSE "reasonable")
    ELSE IF signal = "hotspots"
    THEN (IF Len(hotspots.list) >= SeveralHotspots THEN "several"
          ELSE IF Len(hotspots.list) = 0 THEN "none" ELSE "some")
    ELSE IF signal = "core"
    THEN (IF Len(dep_result.core_modules) >= SeveralCore THEN "several"
          ELSE IF Len(dep_result.core_modules) = 0 THEN "none" ELSE "some")
    ELSE IF signal = "size"
    THEN (IF sloc >= HighSloc THEN "high"
          ELSE IF sloc >= MediumSloc THEN "medium" ELSE "small")
    ELSE (IF dep_result.avg_dependencies.h >= HighDeps * Hundred THEN "high"
          ELSE IF dep_result.avg_dependencies.h >= ModerateDeps * Hundred THEN "moderate"
          ELSE "low")

\* every sentence of the bucket is in the tier the ladders give its signal
TiersAsDue(bucket) ==
    \A i \in 1..Len(bucket) : bucket[i].tier = TierDue(bucket[i].signal)

\* C23: each of the three buckets holds exactly one sentence for each of the
\* signals average coverage, hotspot count and core-module count (and one for the
\* repository size in maintainability), chosen by the ladders, the same tier in
\* every bucket.
C23_OneSentencePerSignalPerBucket ==
    risk_impact.called =>
        \A bucket \in {risk_impact.maintainability, risk_impact.onboarding,
                       risk_impact.evolution} :
            /\ \A signal \in {"documentation", "hotspots", "core"} :
                 CountOf(bucket, signal) = 1
            /\ TiersAsDue(bucket)

\* C23, as the code has it: maintainability speaks about documentation, hotspots
\* and size; onboarding about documentation, core modules and the average number
\* of dependencies; evolution about core modules, hotspots and documentation;
\* every sentence is in the tier the ladders give its signal.
C23_SignalsOfEachBucket ==
    risk_impact.called =>
        /\ SignalsOf(risk_impact.maintainability) = <<"documentation", "hotspots", "size">>
        /\ SignalsOf(risk_impact.onboarding) = <<"documentation", "core", "dependencies">>
        /\ SignalsOf(risk_impact.evolution) = <<"core", "hotspots", "documentation">>
        /\ TiersAsDue(risk_impact.maintainability)
        /\ TiersAsDue(risk_impact.onboarding)
        /\ TiersAsDue(risk_impact.evolution)

\* three hotspots or more, one or two core modules, a total sloc of 20000 or more
\* and an average coverage of exactly 40
C23_Witness ==
    /\ risk_impact.called
    /\ Len(hotspots.list) >= SeveralHotspots
    /\ Len(dep_result.core_modules) \in {1, 2}
    /\ sloc >= HighSloc
    /\ CoverageSum = 3 * LowDocImpact * Hundred
    /\ risk_impact.evolution = <<Sentence("core", "some"), Sentence("hotspots", "several"),
                                 Sentence("documentation", "uneven")>>

InBucket(bucket, sentence) == \E i \in 1..Len(bucket) : bucket[i] = sentence

HasDocs(kind) ==
    \E i \in 1..Len(recommendations.docs) : recommendations.docs[i].kind = kind

\* C30: with non-empty statistics, whenever _risks reports the low documentation
\* risk, all three buckets of _risk_impact carry their lack-of-documentation
\* sentence and the docs bucket of _recommendations carries the 'increase base
\* documentation' sentences.
C30_LowDocumentationAgreed ==
    (risks.called /\ module_stats # <<>> /\ HasRisk("low_documentation")) =>
        /\ risk_impact.called =>
            /\ InBucket(risk_impact.maintainability, Sentence("documentation", "low"))
            /\ InBucket(risk_impact.onboarding, Sentence("documentation", "low"))
            /\ InBucket(risk_impact.evolution, Sentence("documentation", "low"))
        /\ recommendations.called =>
            /\ HasDocs("increase_base_documentation")
            /\ HasDocs("document_critical_modules")

\* the three sections have run on a coverage just below 35
C30_Witness ==
    /\ risks.called /\ risk_impact.called /\ recommendations.called
    /\ module_stats # <<>>
    /\ HasRisk("low_documentation")
    /\ coverage # <<0, 0, 0>>
    /\ HasDocs("increase_base_documentation")

-----------------------------------------------------------------------------
(* Claims about _recommendations *)

RecRan == recommendations.called /\ module_stats # <<>>

KindsOf(bucket) == [i \in 1..Len(bucket) |-> bucket[i].kind]

\* the refactor rules that are triggered, in the order hotspots, very large
\* modules, many methods
RefactorDue ==
    (IF hotspots.list # <<>> THEN <<"refactor_hotspots">> ELSE <<>>)
    \o (IF SomeModule("sloc", VeryLargeSloc) THEN <<"split_large">> ELSE <<>>)
    \o (IF SomeModule("n_methods", TooManyMethods) THEN <<"reduce_methods">> ELSE <<>>)

\* C24: with non-empty statistics the refactor bucket is never empty; it is the
\* single fallback sentence exactly when the hotspot list is empty, no module has
\* sloc >= 1500 and none has method count >= 40; otherwise it is one sentence per
\* triggered rule in the order hotspots, very large modules, many methods (the
\* first `limit` of them), and never the fallback.
C24_RefactorBucket ==
    RecRan =>
        /\ recommendations.refactor # <<>>
        /\ RefactorDue = <<>>
             <=> KindsOf(recommendations.refactor) = <<"no_urgent_refactoring">>
        /\ RefactorDue # <<>>
             => KindsOf(recommendations.refactor) = Take(RefactorDue, rec_limit)
        /\ (RefactorDue # <<>> /\ rec_limit = RecLimit)
             => KindsOf(recommendations.refactor) = RefactorDue

\* a hotspot that is very large and has 40 methods: all three rules, in order
C24_Witness ==
    /\ RecRan
    /\ rec_limit = RecLimit
    /\ KindsOf(recommendations.refactor)
         = <<"refactor_hotspots", "split_large", "reduce_methods">>

\* C25: the docs bucket follows the thresholds of the documentation risk: the
\* 'increase base documentation' sentences exactly when _risks reports low
\* coverage, the 'reinforce documentation' sentences exactly when it reports
\* moderate coverage, the 'maintain the current level' sentence exactly when it
\* reports no documentation risk.
C25_DocsFollowRiskThresholds ==
    (RecRan /\ risks.called) =>
        /\ HasDocs("increase_base_documentation") <=> HasRisk("low_documentation")
        /\ HasDocs("reinforce_documentation") <=> HasRisk("moderate_documentation")
        /\ HasDocs("maintain_documentation")
             <=> ~(HasRisk("low_documentation") \/ HasRisk("moderate_documentation"))

\* the sentences of the architecture bucket that are due, in order
ArchitectureDue ==
    (IF dep_result.core_modules # <<>> THEN <<"core_contracts">> ELSE <<>>)
    \o (IF dep_result.avg_dependencies.h >= HighDeps * Hundred
        THEN <<"reduce_coupling", "avoid_circular">>
        ELSE IF dep_result.avg_dependencies.h >= ModerateDeps * Hundred
             THEN <<"review_dependencies">>
             ELSE <<"modular_structure">>)
    \o (IF dep_result.independent_modules >= ManyIndependent
        THEN <<"review_independent">> ELSE <<>>)

\* the sentences of the docs bucket that are due, in order
DocsDue ==
    (IF CoverageSum < 3 * LowDocRec * Hundred
     THEN <<"increase_base_documentation", "document_critical_modules">>
     ELSE IF CoverageSum < 3 * ModerateDocRec * Hundred
          THEN <<"reinforce_documentation", "docstring_consistency">>
          ELSE <<"maintain_documentation">>)
    \o (IF hotspots.list # <<>> THEN <<"examples_in_hotspots">> ELSE <<>>)

\* C26: with non-empty statistics the architecture bucket holds, in order, the
\* core-module sentence exactly when there is a core module, exactly one tier of
\* the ladder avg_dependencies >= 5 / >= 2 / below, and the independent-modules
\* sentence exactly when independent_modules >= 5; every bucket is the first
\* `limit` entries of what is due, in the same order.
C26_ArchitectureBucket ==
    RecRan =>
        /\ KindsOf(recommendations.architecture) = Take(ArchitectureDue, rec_limit)
        /\ rec_limit = RecLimit => KindsOf(recommendations.architecture) = ArchitectureDue
        /\ KindsOf(recommendations.docs) = Take(DocsDue, rec_limit)
        /\ Len(recommendations.refactor) <= rec_limit
        /\ \A i \in 1..Len(recommendations.architecture) :
             recommendations.architecture[i].kind = "core_contracts" =>
                recommendations.architecture[i].names
                    = Take(dep_result.core_modules, rec_limit)

\* a core of two modules and five independent ones: the core sentence, the
\* modular tier and the independent-modules sentence, in this order
C26_Witness ==
    /\ RecRan
    /\ rec_limit = RecLimit
    /\ KindsOf(recommendations.architecture)
         = <<"core_contracts", "modular_structure", "review_independent">>

-----------------------------------------------------------------------------
(* Claims about analyze_modules *)

\* the places of am_modules that have metrics
Analyzed == {i \in 1..Len(am_modules) : am_modules[i].metrics.type # "NoneType"}

\* C27: a module without metrics is skipped in every output: it adds nothing to
\* the file count, the total lines, the total meaningful lines or the coverage
\* counts and gives no overview row, so the file count equals the number of
\* overview rows; the overview rows are ordered by module path.
C27_UnanalyzedModulesSkipped ==
    am_result.called =>
        /\ am_result.global_stats.n_files = Cardinality(Analyzed)
        /\ am_result.global_stats.n_files = Len(am_result.modules_overview)
        /\ Len(am_result.modules_overview) = Cardinality(Analyzed)
        /\ am_result.global_stats.total_loc
             = SetSum(Analyzed, [i \in Analyzed |-> am_modules[i].metrics.loc])
        /\ am_result.global_stats.total_sloc
             = SetSum(Analyzed, [i \in Analyzed |-> am_modules[i].metrics.sloc])
        /\ am_result.counts.total_classes
             = SetSum(Analyzed, [i \in Analyzed |-> Len(am_modules[i].classes)])
        /\ \E order \in Perms(Analyzed) :
            /\ \A k \in 1..(Len(order) - 1) :
                 am_modules[order[k]].path < am_modules[order[k + 1]].path
            /\ \A k \in 1..Len(order) :
                 am_result.modules_overview[k].path = PathName(am_modules[order[k]].path)

-----------------------------------------------------------------------------
(* Claims about the markup of DocStrings.to_html *)

\* the text read from token i on, inside a list when `open`, which has `items`
\* items so far: every <ul> is closed before the next one and before the end,
\* every <li> is inside a list, no <p> is inside a list, no list is empty
RECURSIVE ListsBalanced(_, _, _, _)
ListsBalanced(text, i, open, items) ==
    IF i > Len(text) THEN ~open
    ELSE IF text[i] = "<ul>" THEN ~open /\ ListsBalanced(text, i + 1, TRUE, 0)
    ELSE IF text[i] = "</ul>"
         THEN open /\ items > 0 /\ ListsBalanced(text, i + 1, FALSE, 0)
    ELSE IF text[i] = "<li>" THEN open /\ ListsBalanced(text, i + 1, open, items + 1)
    ELSE IF text[i] = "<p>" THEN ~open /\ ListsBalanced(text, i + 1, open, items)
    ELSE ListsBalanced(text, i + 1, open, items)

\* C28: for any text and any non-empty token list the HTML of to_html has
\* balanced list markup: every <ul> has its </ul> before the next <ul> or the
\* end, every <li> lies inside a list, no <p> lies inside an open list, and no
\* list is empty.
C28_ListMarkupBalanced ==
    (str_op = "to_html" /\ str_result.kind = "return") =>
        ListsBalanced(str_result.text, 1, FALSE, 0)

-----------------------------------------------------------------------------
(* Claims about ManageLogger *)

InstalledHandlers ==
    <<[kind |-> "RotatingFileHandler", level |-> "INFO", closed |-> FALSE],
      [kind |-> "StreamHandler", level |-> "DEBUG", closed |-> FALSE]>>

\* the last call of ManageLogger that did not raise, "none" when there is none
RECURSIVE LastCompleted(_)
LastCompleted(calls) ==
    IF calls = <<>> THEN "none"
    ELSE IF calls[Len(calls)] = "OSError"
         THEN LastCompleted(SubSeq(calls, 1, Len(calls) - 1))
         ELSE calls[Len(calls)]

\* C29: after any sequence of algorithm and close_logger calls the logger has no
\* handler or exactly two, a rotating file handler at INFO and a console handler
\* at DEBUG: algorithm on a configured logger adds none, close_logger leaves
\* none, and algorithm after close_logger installs the two again.
C29_ZeroOrTwoHandlers ==
    /\ log_handlers \in {<<>>, InstalledHandlers}
    /\ LastCompleted(log_calls) = "algorithm" => log_handlers = InstalledHandlers
    /\ LastCompleted(log_calls) \in {"close_logger", "none"} => log_handlers = <<>>

\* configured twice, closed, and configured again: two handlers
C29_Witness ==
    /\ log_calls = <<"algorithm", "algorithm", "close_logger", "algorithm">>
    /\ log_handlers = InstalledHandlers
    /\ log_level = "DEBUG" /\ ~log_propagate

=============================================================================
